---- MODULE Spec2Model ----
(***************************************************************************)
(* A model of the rectification engine of sous: the per-DeploymentID queue *)
(* set with its handler (graph/server.go), and the client-side status      *)
(* poller (lib/status_poller.go).                                          *)
(*                                                                         *)
(* The specifications share the variables below; each leaves the other     *)
(* subsystems' variables at their initial values:                          *)
(*   SpecQueue    the queue set, its workers and the handler               *)
(*   SpecCompute  subPoller.computeState applied to bounded inputs         *)
(*   SpecPollOnce subPoller.pollOnce applied to bounded /status outcomes   *)
(*   SpecPoller   StatusPoller.Wait, the collecting goroutine and the      *)
(*                sub-pollers (FairSpecPoller adds the scheduling fairness)*)
(*   SpecRecorder one ResolveRecorder: its runner, its drain and callers   *)
(*   SpecEqual    Deployment.Diff and Equal applied to pairs of deployments*)
(*   SpecPut      PUTArtifactHandler.Exchange applied to bounded requests  *)
(*   SpecFeatures stateFeatures and computeState applied to one snapshot   *)
(*   SpecDeployQueue  PollDeployQueue against the answers of a server      *)
(***************************************************************************)
EXTENDS Integers, Sequences, FiniteSets, TLC

VARIABLES
    \* ---- queue set ----
    queues,          \* DeploymentID -> sequence of queued r11n ids (head first)
    nextID,          \* number of ids handed out by Push so far
    didOf,           \* r11n id -> DeploymentID of its pair (0: id not handed out)
    r11n,            \* r11n id -> "new" | "begun" | "done" (Rectification.begun / result)
    wpc,             \* DeploymentID -> position of the queue's worker
    finished,        \* r11n ids in the order their DiffResolution was produced
    lastPush,        \* what the latest Push returned: its id (0: none) and ok
    lastGet,         \* the latest GET of one deployment queue and its answer
    \* ---- computeState ----
    cs,              \* inputs and result of one computeState call
    po,              \* inputs and result of one pollOnce call
    eq,              \* two deployments and the result of Diff on them
    put,             \* one PUT /artifact request and its answer
    sf,              \* one snapshot and the features and state read from it
    dq,              \* one run of PollDeployQueue
    \* ---- status poller ----
    subs,            \* the clusters the filter asks for, of which poll() starts a
                     \* sub-poller on each when waitForever gets that far
    spc,             \* cluster -> position of its sub-poller goroutine
    httpErrorCount,  \* cluster -> subPoller.httpErrorCount
    firstTerminal,   \* cluster -> whether start()'s local pollResult, the result of
                     \* its first poll, has stat >= ResolveTERMINALS
    statePerCluster, \* StatusPoller.statePerCluster (a map keyed by cluster)
    status,          \* StatusPoller.status
    collector,       \* "idle" | "running" | "done": the collecting goroutine of poll()
    crashed,         \* "no" | the panic that ended the process
    wait,            \* the call of StatusPoller.Wait: position, locals and return value
    ctxCancelled,    \* whether the context handed to Wait is cancelled
    env,             \* the servers: failure cap, whether they have settled
    hist,            \* history of the sub-pollers' polls (for the properties only)
    \* ---- resolve recorder ----
    rr,              \* the ResolveRecorder: status, Log channel, finished, err
    run,             \* the goroutines around it: runner, drain, the caller of Wait
    snap             \* a ResolveStatus returned by CurrentStatus and held by a caller

queueVars == <<queues, nextID, didOf, r11n, wpc, finished, lastPush, lastGet>>
pollerVars == <<subs, spc, httpErrorCount, firstTerminal, statePerCluster, status,
                collector, crashed, wait, ctxCancelled, env, hist>>
computeVars == <<cs, po, eq, put, sf, dq>>
recorderVars == <<rr, run, snap>>
vars == <<queues, nextID, didOf, r11n, wpc, finished, lastPush, lastGet, cs, po, eq, put, sf, dq,
          subs, spc, httpErrorCount, firstTerminal, statePerCluster, status,
          collector, crashed, wait, ctxCancelled, env, hist, rr, run, snap>>

Nil == [nil |-> TRUE]

(***************************************************************************)
(* Bounds of the model.                                                    *)
(***************************************************************************)
NumDIDs == 2          \* DeploymentIDs that are pushed to
MaxPush == 4          \* successful Push calls in one run
QueueCap == 2         \* capacity of one queue
NumClusters == 2      \* clusters known to the main server
MaxResolveID == 2     \* distinct InProgress.Started timestamps a server shows
PollerFailCap == 1    \* HTTP failures in a row injected when several clusters poll
SoloFailCap == 11     \* HTTP failures in a row injected when one cluster polls
MaxPollsAfter == 2    \* polls counted after a cancellation or a give-up
MaxEmit == 2          \* DiffResolutions one runner sends on the Log channel

DIDs == 1..NumDIDs
R11nIDs == 1..MaxPush
Clusters == 1..NumClusters

(***************************************************************************)
(* ResolveState (status_poller.go, const block).                           *)
(***************************************************************************)
ResolveNotPolled == 0
ResolveNotStarted == 1
ResolveNotVersion == 2
ResolvePendingRequest == 3
ResolveInProgress == 4
ResolveTasksStarting == 5
ResolveErredHTTP == 6
ResolveErredRez == 7
ResolveNotIntended == 8
ResolveFailed == 9
ResolveComplete == 10
ResolveMAX == 11
ResolveTERMINALS == ResolveNotIntended

(***************************************************************************)
(* QUEUE SET.  The queue set, its queues and workers and Rectification are *)
(* not part of the sources at hand: they follow section 4.2 and 4.3 of the *)
(* specification.  The handler is the closure of graph.NewR11nQueueSet.    *)
(***************************************************************************)
InitQueue ==
    /\ queues = [d \in DIDs |-> <<>>]
    /\ nextID = 0
    /\ didOf = [i \in R11nIDs |-> 0]
    /\ r11n = [i \in R11nIDs |-> "new"]
    /\ wpc = [d \in DIDs |-> "idle"]
    /\ finished = <<>>
    /\ lastPush = [id |-> 0, ok |-> TRUE]
    /\ lastGet = [asked |-> FALSE, did |-> 1, didErr |-> FALSE,
                  status |-> 0, queue |-> <<>>]

\* A Push that answers false on a full queue and appends all the same.
PushOverfull(d) ==
    /\ nextID < MaxPush
    /\ nextID' = nextID + 1
    /\ didOf' = [didOf EXCEPT ![nextID + 1] = d]
    /\ queues' = [queues EXCEPT ![d] = Append(@, nextID + 1)]
    /\ lastPush' = IF Len(queues[d]) < QueueCap
                      THEN [id |-> nextID + 1, ok |-> TRUE]
                      ELSE [id |-> 0, ok |-> FALSE]
    /\ UNCHANGED <<r11n, wpc, finished>>
    /\ UNCHANGED lastGet
    /\ UNCHANGED <<computeVars, pollerVars, recorderVars>>

\* A Push that puts the new item in the place of the tail of the queue.
PushReplaceTail(d) ==
    /\ nextID < MaxPush
    /\ IF Len(queues[d]) < QueueCap
          THEN /\ nextID' = nextID + 1
               /\ didOf' = [didOf EXCEPT ![nextID + 1] = d]
               /\ queues' = [queues EXCEPT ![d] =
                                IF Len(@) > 1 \/ (Len(@) = 1 /\ wpc[d] = "idle")
                                   THEN [@ EXCEPT ![Len(@)] = nextID + 1]
                                   ELSE Append(@, nextID + 1)]
               /\ lastPush' = [id |-> nextID + 1, ok |-> TRUE]
          ELSE /\ lastPush' = [id |-> 0, ok |-> FALSE]
               /\ UNCHANGED <<nextID, didOf, queues>>
    /\ UNCHANGED <<r11n, wpc, finished>>
    /\ UNCHANGED lastGet
    /\ UNCHANGED <<computeVars, pollerVars, recorderVars>>

\* A Push that puts the new item at the head of the queue.
PushAtHead(d) ==
    /\ nextID < MaxPush
    /\ IF Len(queues[d]) < QueueCap
          THEN /\ nextID' = nextID + 1
               /\ didOf' = [didOf EXCEPT ![nextID + 1] = d]
               /\ queues' = [queues EXCEPT ![d] = <<nextID + 1>> \o @]
               /\ lastPush' = [id |-> nextID + 1, ok |-> TRUE]
          ELSE /\ lastPush' = [id |-> 0, ok |-> FALSE]
               /\ UNCHANGED <<nextID, didOf, queues>>
    /\ UNCHANGED <<r11n, wpc, finished>>
    /\ UNCHANGED lastGet
    /\ UNCHANGED <<computeVars, pollerVars, recorderVars>>

\* Push(r11n): a fresh id, appended to the queue of r11n.Pair.ID();
\* false, and nothing changed, when that queue is full.  Never blocks.
Push(d) ==
    /\ nextID < MaxPush
    /\ IF Len(queues[d]) < QueueCap
          THEN /\ nextID' = nextID + 1
               /\ didOf' = [didOf EXCEPT ![nextID + 1] = d]
               /\ queues' = [queues EXCEPT ![d] = Append(@, nextID + 1)]
               /\ lastPush' = [id |-> nextID + 1, ok |-> TRUE]
          ELSE /\ lastPush' = [id |-> 0, ok |-> FALSE]
               /\ UNCHANGED <<nextID, didOf, queues>>
    /\ UNCHANGED <<r11n, wpc, finished>>
    /\ UNCHANGED lastGet
    /\ UNCHANGED <<computeVars, pollerVars, recorderVars>>

\* The queue's single worker takes the head of its queue and calls the handler.
WorkerNext(d) ==
    /\ wpc[d] = "idle"
    /\ queues[d] # <<>>
    /\ wpc' = [wpc EXCEPT ![d] = "handler"]
    /\ UNCHANGED <<queues, nextID, didOf, r11n, finished, lastPush>>
    /\ UNCHANGED lastGet
    /\ UNCHANGED <<computeVars, pollerVars, recorderVars>>

\* A Begin that starts the work again on every call.
BeginRestart(r, i) == [r EXCEPT ![i] = "begun"]

\* Rectification.Begin on the rectifications r: the first call starts the
\* work, later calls are no-ops.
BeginOn(r, i) == [r EXCEPT ![i] = IF @ = "new" THEN "begun" ELSE @]
Begin(i) == BeginOn(r11n, i)

\* Another Begin on a rectification that was begun before.
BeginAgain(i) ==
    /\ didOf[i] # 0
    /\ r11n[i] # "new"
    /\ r11n' = Begin(i)
    /\ UNCHANGED <<queues, nextID, didOf, wpc, finished, lastPush>>
    /\ UNCHANGED lastGet
    /\ UNCHANGED <<computeVars, pollerVars, recorderVars>>

\* The work started by Begin ends and records its DiffResolution.
RectificationDone(i) ==
    /\ r11n[i] = "begun"
    /\ r11n' = [r11n EXCEPT ![i] = "done"]
    /\ finished' = Append(finished, i)
    /\ UNCHANGED <<queues, nextID, didOf, wpc, lastPush>>
    /\ UNCHANGED lastGet
    /\ UNCHANGED <<computeVars, pollerVars, recorderVars>>

\* Rectification.Wait returns once the result is recorded.
WaitUnblocked(i) == r11n[i] = "done"

\* handler, first statement: qr.Rectification.Begin(d, r, rf, sr)
HandlerBegin(d) ==
    /\ wpc[d] = "handler"
    /\ r11n' = Begin(Head(queues[d]))
    /\ wpc' = [wpc EXCEPT ![d] = "wait"]
    /\ UNCHANGED <<queues, nextID, didOf, finished, lastPush>>
    /\ UNCHANGED lastGet
    /\ UNCHANGED <<computeVars, pollerVars, recorderVars>>

\* A handler that returns without waiting for the rectification.
HandlerReturnNoWait(d) ==
    /\ wpc[d] = "wait"
    /\ wpc' = [wpc EXCEPT ![d] = "publish"]
    /\ UNCHANGED <<queues, nextID, didOf, r11n, finished, lastPush>>
    /\ UNCHANGED lastGet
    /\ UNCHANGED <<computeVars, pollerVars, recorderVars>>

\* handler, second statement: return qr.Rectification.Wait()
HandlerReturn(d) ==
    /\ wpc[d] = "wait"
    /\ WaitUnblocked(Head(queues[d]))
    /\ wpc' = [wpc EXCEPT ![d] = "publish"]
    /\ UNCHANGED <<queues, nextID, didOf, r11n, finished, lastPush>>
    /\ UNCHANGED lastGet
    /\ UNCHANGED <<computeVars, pollerVars, recorderVars>>

\* The worker publishes the handler's result and removes the item from the head.
WorkerPublish(d) ==
    /\ wpc[d] = "publish"
    /\ queues' = [queues EXCEPT ![d] = Tail(@)]
    /\ wpc' = [wpc EXCEPT ![d] = "idle"]
    /\ UNCHANGED <<nextID, didOf, r11n, finished, lastPush>>
    /\ UNCHANGED lastGet
    /\ UNCHANGED <<computeVars, pollerVars, recorderVars>>

\* Queues(): the snapshot of the queues that exist, one per DeploymentID that
\* was pushed to (a queue is created on the first Push and stays).
HasQueue(d) == \E i \in R11nIDs : didOf[i] = d
Queues == [d \in {e \in DIDs : HasQueue(e)} |-> queues[d]]

\* An Exchange that answers 200 whatever is asked.
ExchangeAlways200(didErr, d) ==
    [status |-> 200, queue |-> IF d \in DOMAIN Queues THEN Queues[d] ELSE <<>>]

\* GETDeployQueueHandler.Exchange: 404 and an empty queue on a DeploymentID
\* that could not be derived or that has no queue, else 200 and the items.
Exchange(didErr, d) ==
    IF didErr THEN [status |-> 404, queue |-> <<>>]
    ELSE IF d \notin DOMAIN Queues THEN [status |-> 404, queue |-> <<>>]
    ELSE [status |-> 200, queue |-> Queues[d]]

\* One GET /deploy-queue-item; with didErr the query gave no DeploymentID.
GetDeployQueue(didErr, d) ==
    /\ ~lastGet.asked
    /\ LET x == Exchange(didErr, d)
       IN  lastGet' = [asked |-> TRUE, did |-> d, didErr |-> didErr,
                       status |-> x.status, queue |-> x.queue]
    /\ UNCHANGED <<queues, nextID, didOf, r11n, wpc, finished, lastPush>>
    /\ UNCHANGED <<computeVars, pollerVars, recorderVars>>

\* The client drops the answer; the next GET may come.
GetDone ==
    /\ lastGet.asked
    /\ lastGet' = [asked |-> FALSE, did |-> 1, didErr |-> FALSE,
                   status |-> 0, queue |-> <<>>]
    /\ UNCHANGED <<queues, nextID, didOf, r11n, wpc, finished, lastPush>>
    /\ UNCHANGED <<computeVars, pollerVars, recorderVars>>

NextQueue ==
    \/ \E d \in DIDs : Push(d)
    \/ \E i \in R11nIDs : BeginAgain(i)
    \/ \E didErr \in BOOLEAN : \E d \in DIDs : GetDeployQueue(didErr, d)
    \/ GetDone
    \/ \E d \in DIDs : WorkerNext(d)
    \/ \E d \in DIDs : HandlerBegin(d)
    \/ \E i \in R11nIDs : RectificationDone(i)
    \/ \E d \in DIDs : HandlerReturn(d)
    \/ \E d \in DIDs : WorkerPublish(d)

(***************************************************************************)
(* computeState.  A Deployment is reduced to the fields the sub-poller's   *)
(* two filters look at; a DiffResolution to its ManifestID, Desc and Error.*)
(***************************************************************************)
Repos == {"r1", "r2"}
Tags == {"v1", "v2"}
FilterRepo == "r1"
FilterTag == "v1"
DeploymentValues == [repo : Repos, tag : Tags]

StableDiff == "unchanged"
ComingDiff == "coming"
Descs == {"unchanged", "coming", "created", "updated", "deleted"}
NoError == "none"
ErrorValues == {"none", "transient", "permanent"}
DiffResolutions == [ManifestID : Repos, Desc : Descs, Error : ErrorValues]

\* locationFilter: the base filter with Cluster, Tag and Revision cleared.
LocationFilterDeployment(dep) == dep.repo = FilterRepo
LocationFilterManifestID(mid) == mid = FilterRepo
\* idFilter: the base filter with only Cluster cleared.
IdFilterDeployment(dep) == dep.repo = FilterRepo /\ dep.tag = FilterTag

IsTransientResolveError(e) == e = "transient"

\* computeState with the description looked at before the error.
computeStateDescFirst(srvIntent, current) ==
    IF srvIntent = Nil THEN ResolveNotStarted
    ELSE IF ~IdFilterDeployment(srvIntent) THEN ResolveNotVersion
    ELSE IF current = Nil THEN ResolvePendingRequest
    ELSE IF current.Desc = StableDiff THEN ResolveComplete
    ELSE IF current.Desc = ComingDiff THEN ResolveTasksStarting
    ELSE IF current.Error # NoError
         THEN IF IsTransientResolveError(current.Error)
                 THEN ResolveErredRez ELSE ResolveFailed
    ELSE ResolveInProgress

computeState(srvIntent, current) ==
    IF srvIntent = Nil THEN ResolveNotStarted
    ELSE IF ~IdFilterDeployment(srvIntent) THEN ResolveNotVersion
    ELSE IF current = Nil THEN ResolvePendingRequest
    ELSE IF current.Error # NoError
         THEN IF IsTransientResolveError(current.Error)
                 THEN ResolveErredRez ELSE ResolveFailed
    ELSE IF current.Desc = StableDiff THEN ResolveComplete
    ELSE IF current.Desc = ComingDiff THEN ResolveTasksStarting
    ELSE ResolveInProgress

InitCompute ==
    cs \in [called : {FALSE},
            srvIntent : DeploymentValues \cup {Nil},
            current : DiffResolutions \cup {Nil},
            state : {ResolveNotPolled}]

IdleCompute ==
    cs = [called |-> FALSE, srvIntent |-> Nil, current |-> Nil,
          state |-> ResolveNotPolled]

ComputeStateCall ==
    /\ ~cs.called
    /\ cs' = [cs EXCEPT !.called = TRUE,
                        !.state = computeState(cs.srvIntent, cs.current)]
    /\ UNCHANGED <<po, eq, put, sf, dq, queueVars, pollerVars, recorderVars>>

NextCompute == ComputeStateCall

(***************************************************************************)
(* STATUS POLLER.  What a server answers to GET /status (statusData): the  *)
(* deprecated top-level Deployments and the Completed and InProgress       *)
(* ResolveStatus, each possibly absent.  Started stands for the timestamp  *)
(* whose String() is the resolveID; 0 stands for the empty resolveID.      *)
(***************************************************************************)
DMatch == [repo |-> FilterRepo, tag |-> FilterTag]
DOtherTag == [repo |-> FilterRepo, tag |-> "v2"]
Rez(desc, e) == [ManifestID |-> FilterRepo, Desc |-> desc, Error |-> e]

\* The server's view of the deployment in one snapshot: nothing intended
\* (or an old server that lists no Intended), or intended with a resolution
\* that is created, in transient error, failed for good, or stable.
PollViews ==
    {[Intended |-> <<>>, Log |-> <<>>],
     [Intended |-> <<>>, Log |-> <<Rez("created", NoError)>>],
     [Intended |-> <<DMatch>>, Log |-> <<Rez("created", NoError)>>],
     [Intended |-> <<DMatch>>, Log |-> <<Rez("created", "transient")>>],
     [Intended |-> <<DMatch>>, Log |-> <<Rez("unchanged", "permanent")>>],
     [Intended |-> <<DMatch>>, Log |-> <<Rez("unchanged", NoError)>>]}
PollInProgress ==
    {Nil} \cup {[Started |-> t, Intended |-> v.Intended, Log |-> v.Log] :
                  t \in 1..MaxResolveID, v \in PollViews}
PollCompleted ==
    {Nil, [Started |-> 1, Intended |-> <<DMatch>>, Log |-> <<Rez("unchanged", NoError)>>]}
StatusDatas ==
    [Deployments : {<<>>, <<DMatch>>}, Completed : PollCompleted,
     InProgress : PollInProgress]
\* data := &statusData{} as Retrieve leaves it when it decoded nothing
EmptyData == [Deployments |-> <<>>, Completed |-> Nil, InProgress |-> Nil]
\* a server whose resolution of the filtered deployment is stable
SettledData ==
    [Deployments |-> <<>>, Completed |-> Nil,
     InProgress |-> [Started |-> 1, Intended |-> <<DMatch>>,
                     Log |-> <<Rez("unchanged", NoError)>>]]

\* serverIntent that keeps the first match and ignores the further ones.
RECURSIVE serverIntentLoopFirst(_, _, _)
serverIntentLoopFirst(intended, i, dep) ==
    IF i > Len(intended) THEN dep
    ELSE IF LocationFilterDeployment(intended[i]) /\ dep = Nil
         THEN serverIntentLoopFirst(intended, i + 1, intended[i])
    ELSE serverIntentLoopFirst(intended, i + 1, dep)

RECURSIVE serverIntentLoop(_, _, _)
serverIntentLoop(intended, i, dep) ==
    IF i > Len(intended) THEN dep
    ELSE IF LocationFilterDeployment(intended[i])
         THEN IF dep # Nil THEN Nil
              ELSE serverIntentLoop(intended, i + 1, intended[i])
    ELSE serverIntentLoop(intended, i + 1, dep)

serverIntent(rstat) ==
    IF rstat = Nil THEN Nil ELSE serverIntentLoop(rstat.Intended, 1, Nil)

\* diffResolutionFor that returns the last matching entry of the log.
RECURSIVE diffResolutionLoopLast(_, _)
diffResolutionLoopLast(rezs, i) ==
    IF i > Len(rezs) THEN Nil
    ELSE LET later == diffResolutionLoopLast(rezs, i + 1)
         IN  IF later # Nil THEN later
             ELSE IF LocationFilterManifestID(rezs[i].ManifestID) THEN rezs[i]
             ELSE Nil

RECURSIVE diffResolutionLoop(_, _)
diffResolutionLoop(rezs, i) ==
    IF i > Len(rezs) THEN Nil
    ELSE IF LocationFilterManifestID(rezs[i].ManifestID) THEN rezs[i]
    ELSE diffResolutionLoop(rezs, i + 1)

diffResolutionFor(rstat) ==
    IF rstat = Nil THEN Nil ELSE diffResolutionLoop(rstat.Log, 1)

\* stateFeatures and computeState of one snapshot
snapshotState(rstat) == computeState(serverIntent(rstat), diffResolutionFor(rstat))

(***************************************************************************)
(* stateFeatures and computeState on their own: one ResolveStatus, absent  *)
(* or with a list of intended deployments and a log of resolutions, some   *)
(* of them for another repository than the filter's.                       *)
(***************************************************************************)
MaxIntended == 2
MaxLog == 2
SeqsUpTo(S, n) == UNION {[1..k -> S] : k \in 0..n}
FeatureSnapshots ==
    {Nil} \cup
    [Started : {1}, Intended : SeqsUpTo(DeploymentValues, MaxIntended),
     Log : SeqsUpTo([ManifestID : Repos, Desc : {"unchanged", "created"},
                     Error : {"none", "permanent"}], MaxLog)]

InitFeatures ==
    sf \in [called : {FALSE}, rstat : FeatureSnapshots, srvIntent : {Nil},
            current : {Nil}, state : {ResolveNotPolled}]

IdleFeatures ==
    sf = [called |-> FALSE, rstat |-> Nil, srvIntent |-> Nil, current |-> Nil,
          state |-> ResolveNotPolled]

\* sub.computeState(sub.stateFeatures(kind, rstat))
StateFeaturesCall ==
    /\ ~sf.called
    /\ sf' = [sf EXCEPT !.called = TRUE,
                        !.srvIntent = serverIntent(sf.rstat),
                        !.current = diffResolutionFor(sf.rstat),
                        !.state = snapshotState(sf.rstat)]
    /\ UNCHANGED <<cs, po, eq, put, dq, queueVars, pollerVars, recorderVars>>

\* pollOnce without the backwards-compatibility copy.
compatIntendedNoCopy(data, rstat) == rstat

\* The backwards-compatibility copy of Deployments into an empty Intended.
compatIntended(data, rstat) ==
    IF rstat # Nil /\ Len(rstat.Intended) = 0
       THEN [rstat EXCEPT !.Intended = data.Deployments]
       ELSE rstat

\* subPoller.result: the resolveID is read through data.InProgress, which
\* panics (nil pointer dereference) when InProgress is absent.
result(rs, data, count) ==
    IF data.InProgress = Nil
       THEN [panic |-> TRUE, stat |-> rs, resolveID |-> 0, count |-> count]
       ELSE [panic |-> FALSE, stat |-> rs, resolveID |-> data.InProgress.Started,
             count |-> count]

\* subPoller.pollOnce on one outcome of Retrieve("./status"): ok is err == nil,
\* data what Retrieve left in the statusData, count the httpErrorCount before.
pollOnce(ok, data, count) ==
    IF ~ok
       THEN IF count + 1 > 10
               THEN result(ResolveFailed, data, count + 1)
               ELSE result(ResolveErredHTTP, data, count + 1)
       ELSE LET completed == compatIntended(data, data.Completed)
                inProgress == compatIntended(data, data.InProgress)
                currentState == snapshotState(inProgress)
            IN  IF currentState \in {ResolveNotStarted, ResolveNotVersion,
                                     ResolvePendingRequest}
                   THEN result(snapshotState(completed), data, 0)
                   ELSE result(currentState, data, 0)

(***************************************************************************)
(* pollOnce on its own: one call on one outcome of GET /status.            *)
(***************************************************************************)
\* The snapshots a server may show: absent, or any combination of an Intended
\* list (empty, the deployment asked for, another version of it) and a log.
PollOnceIntended == {<<>>, <<DMatch>>, <<DOtherTag>>}
PollOnceLogs ==
    {<<>>, <<Rez("created", NoError)>>, <<Rez("unchanged", NoError)>>,
     <<Rez("coming", "transient")>>}
PollOnceSnapshots ==
    {Nil} \cup [Started : {1}, Intended : PollOnceIntended, Log : PollOnceLogs]
PollOnceDatas ==
    [Deployments : PollOnceIntended, Completed : PollOnceSnapshots,
     InProgress : PollOnceSnapshots]
\* httpErrorCount before the call: none, and around the limit of ten
PollOnceCounts == {0, 9, 10}

InitPollOnce ==
    po \in [called : {FALSE}, ok : BOOLEAN, data : PollOnceDatas,
            count : PollOnceCounts, out : {Nil}]

IdlePollOnce ==
    po = [called |-> FALSE, ok |-> TRUE, data |-> EmptyData, count |-> 0,
          out |-> Nil]

PollOnceCall ==
    /\ ~po.called
    /\ po' = [po EXCEPT !.called = TRUE,
                        !.out = pollOnce(po.ok, po.data, po.count)]
    /\ UNCHANGED <<cs, eq, put, sf, dq, queueVars, pollerVars, recorderVars>>

NextPollOnce == PollOnceCall

(***************************************************************************)
(* The collecting goroutine of StatusPoller.poll.                          *)
(***************************************************************************)
PollResult(stat, resolveID) == [stat |-> stat, resolveID |-> resolveID]

\* nextSubStatus once the update is received: the new statePerCluster, or the
\* panic that precedes the assignment of LastCycle.
nextSubStatus(m, url, update) ==
    IF url \in DOMAIN m
       THEN IF /\ m[url].LastResult.resolveID # 0
               /\ m[url].LastResult.resolveID # update.resolveID
               THEN [panic |-> TRUE, map |-> m]
               ELSE [panic |-> FALSE, map |-> [m EXCEPT ![url].LastResult = update]]
       ELSE [panic |-> FALSE,
             map |-> [u \in DOMAIN m \cup {url} |->
                        IF u = url THEN [LastResult |-> update, LastCycle |-> FALSE]
                                   ELSE m[u]]]

\* The orders in which a range over the map may visit its keys.
Orders(m) ==
    {o \in [1..Cardinality(DOMAIN m) -> DOMAIN m] :
        \A i, j \in DOMAIN o : i # j => o[i] # o[j]}

RECURSIVE updateStatusLoop(_, _, _, _)
updateStatusLoop(m, order, i, max) ==
    IF i > Len(order) THEN max
    ELSE LET s == m[order[i]]
         IN  IF ~s.LastCycle
                THEN IF ResolveTERMINALS < s.LastResult.stat
                        THEN ResolveInProgress
                        ELSE s.LastResult.stat
                ELSE IF s.LastResult.stat <= max
                        THEN updateStatusLoop(m, order, i + 1, s.LastResult.stat)
                        ELSE updateStatusLoop(m, order, i + 1, max)

\* updateStatus, the map visited in the given order: the new sp.status
updateStatus(m, order) == updateStatusLoop(m, order, 1, ResolveMAX)

\* One turn of the collecting loop on the update a sub-poller sends:
\* nextSubStatus, then finished() (updateStatus and the test that closes done).
Collect(url, update) ==
    LET n == nextSubStatus(statePerCluster, url, update)
    IN  IF n.panic
           THEN /\ crashed' = "LAST_CYCLE_W00t"
                /\ UNCHANGED <<statePerCluster, status, collector>>
           ELSE /\ statePerCluster' = n.map
                /\ \E order \in Orders(n.map) : status' = updateStatus(n.map, order)
                /\ collector' = IF status' >= ResolveTERMINALS THEN "done" ELSE "running"
                /\ UNCHANGED crashed

(***************************************************************************)
(* The sub-pollers (subPoller.start).  A send on the unbuffered collect    *)
(* channel is one step with the collecting loop's receive; with the        *)
(* collecting goroutine gone the sender stays blocked.                     *)
(***************************************************************************)
Alive == crashed = "no"

\* The resolve cycle a settled server stays in: the one the cluster's latest
\* result came from, if any.
SettledStarted(c) ==
    IF c \in DOMAIN statePerCluster /\ statePerCluster[c].LastResult.resolveID # 0
       THEN statePerCluster[c].LastResult.resolveID
       ELSE 1

\* What GET /status may answer: after the servers settled, the stable answer.
Responses(c) ==
    IF env.settled
       THEN {[ok |-> TRUE,
              data |-> [SettledData EXCEPT !.InProgress.Started = SettledStarted(c)]]}
       ELSE [ok : {TRUE}, data : StatusDatas] \cup
            {r \in [ok : {FALSE}, data : {EmptyData, SettledData}] :
                httpErrorCount[c] < env.failCap}

Bump(n) == IF n < MaxPollsAfter THEN n + 1 ELSE n

\* The history of the polls: the latest outcome, the polls issued after the
\* context was cancelled and after the sub-poller reported its give-up, and
\* whether some sub-poller polled again after a poll of its own that yielded
\* a terminal state.
Polled(c, ok, r) ==
    hist' = [hist EXCEPT
               !.tick = IF env.settled THEN ~@ ELSE @,
               !.last[c] = [polled |-> TRUE, ok |-> ok, stat |-> r.stat,
                            count |-> r.count],
               !.afterCancel[c] = IF ctxCancelled THEN Bump(@) ELSE @,
               !.afterGiveUp[c] = IF hist.gaveUp[c] THEN Bump(@) ELSE @,
               !.gaveUp[c] = @ \/ (~ok /\ r.stat = ResolveFailed),
               !.afterTerminal =
                   @ \/ (hist.last[c].polled /\ hist.last[c].stat >= ResolveTERMINALS)]

\* rs <- x
Send(c, update, next) ==
    IF collector = "running"
       THEN /\ Collect(c, update)
            /\ spc' = [spc EXCEPT ![c] = next]
       ELSE /\ spc' = [spc EXCEPT ![c] = "blocked"]
            /\ UNCHANGED <<statePerCluster, status, collector, crashed>>

\* rs <- pollResult{url: sub.URL, stat: ResolveNotPolled}
SubStart(c) ==
    /\ Alive
    /\ spc[c] = "start"
    /\ Send(c, PollResult(ResolveNotPolled, 0), "first")
    /\ UNCHANGED <<subs, httpErrorCount, firstTerminal, wait, ctxCancelled, env, hist>>
    /\ UNCHANGED <<computeVars, queueVars, recorderVars>>

\* pollOnce and the send of its result; a panic in pollOnce ends the process.
PollAndSend(c, first) ==
    \E resp \in Responses(c) :
        LET r == pollOnce(resp.ok, resp.data, httpErrorCount[c])
        IN  /\ Polled(c, resp.ok, r)
            /\ IF r.panic
                  THEN /\ crashed' = "nil dereference"
                       /\ UNCHANGED <<spc, httpErrorCount, firstTerminal,
                                      statePerCluster, status, collector>>
                  ELSE /\ httpErrorCount' = [httpErrorCount EXCEPT ![c] = r.count]
                       /\ firstTerminal' =
                             IF first
                                THEN [firstTerminal EXCEPT
                                        ![c] = r.stat >= ResolveTERMINALS]
                                ELSE firstTerminal
                       /\ Send(c, PollResult(r.stat, r.resolveID), "loop")

\* pollResult := sub.pollOnce(); rs <- pollResult
SubFirstPoll(c) ==
    /\ Alive
    /\ spc[c] = "first"
    /\ PollAndSend(c, TRUE)
    /\ UNCHANGED <<subs, wait, ctxCancelled, env>>
    /\ UNCHANGED <<computeVars, queueVars, recorderVars>>

\* case <-ticker.C: latest := sub.pollOnce(); rs <- latest
SubTick(c) ==
    /\ Alive
    /\ spc[c] = "loop"
    /\ ~firstTerminal[c]
    /\ PollAndSend(c, FALSE)
    /\ UNCHANGED <<subs, wait, ctxCancelled, env>>
    /\ UNCHANGED <<computeVars, queueVars, recorderVars>>

\* if pollResult.stat >= ResolveTERMINALS { return }, and case <-done: return
SubReturn(c) ==
    /\ Alive
    /\ spc[c] = "loop"
    /\ firstTerminal[c] \/ collector = "done"
    /\ spc' = [spc EXCEPT ![c] = "stopped"]
    /\ UNCHANGED <<subs, httpErrorCount, firstTerminal, statePerCluster, status,
                   collector, crashed, wait, ctxCancelled, env, hist>>
    /\ UNCHANGED <<computeVars, queueVars, recorderVars>>

(***************************************************************************)
(* StatusPoller.Wait and the goroutine it starts on waitForever.           *)
(***************************************************************************)
\* waitForever going on to subPollers and poll when no deployment matches.
earlyReturnNoBail(setup, s) ==
    CASE setup = "serversErr" -> <<ResolveFailed, "err">>
      [] setup = "gdmErr" -> <<ResolveFailed, "err">>
      [] setup = "subsErr" -> <<ResolveNotPolled, "err">>
      [] OTHER -> Nil

\* What waitForever returns before it polls, by what /servers, /gdm and
\* subPollers gave: <<state, err>>, or Nil when it goes on to poll(subs).
earlyReturn(setup, s) ==
    CASE setup = "serversErr" -> <<ResolveFailed, "err">>
      [] setup = "gdmErr" -> <<ResolveFailed, "err">>
      [] setup = "noDeps" -> <<ResolveNotIntended, "nil">>
      [] setup = "subsErr" -> <<ResolveNotPolled, "err">>
      [] OTHER -> IF s = {} THEN <<ResolveNotIntended, "nil">> ELSE Nil

\* waitForever up to the start of poll's goroutines
WaitForeverSetup ==
    /\ Alive
    /\ wait.gpc = "setup"
    /\ LET early == earlyReturn(env.setup, subs)
       IN  IF early # Nil
              THEN /\ wait' = [wait EXCEPT !.gpc = "return", !.pending = early]
                   /\ UNCHANGED <<spc, collector>>
              ELSE /\ wait' = [wait EXCEPT !.gpc = "polling"]
                   /\ collector' = "running"
                   /\ spc' = [c \in Clusters |-> IF c \in subs THEN "start" ELSE "none"]
    /\ UNCHANGED <<subs, httpErrorCount, firstTerminal, statePerCluster, status,
                   crashed, ctxCancelled, env, hist>>
    /\ UNCHANGED <<computeVars, queueVars, recorderVars>>

\* resolveState, err = sp.waitForever(): poll returns sp.status once done is closed
WaitForeverReturn ==
    /\ Alive
    /\ wait.gpc = "return" \/ (wait.gpc = "polling" /\ collector = "done")
    /\ LET v == IF wait.gpc = "return" THEN wait.pending ELSE <<status, "nil">>
       IN  wait' = [wait EXCEPT !.gpc = "assigned", !.resolveState = v[1], !.err = v[2]]
    /\ UNCHANGED <<subs, spc, httpErrorCount, firstTerminal, statePerCluster, status,
                   collector, crashed, ctxCancelled, env, hist>>
    /\ UNCHANGED <<computeVars, queueVars, recorderVars>>

\* close(done) in Wait's goroutine
WaitGoroutineClose ==
    /\ Alive
    /\ wait.gpc = "assigned"
    /\ wait' = [wait EXCEPT !.gpc = "closed"]
    /\ UNCHANGED <<subs, spc, httpErrorCount, firstTerminal, statePerCluster, status,
                   collector, crashed, ctxCancelled, env, hist>>
    /\ UNCHANGED <<computeVars, queueVars, recorderVars>>

\* case <-done: return resolveState, err
WaitReturnDone ==
    /\ Alive
    /\ wait.pc = "select"
    /\ wait.gpc = "closed"
    /\ wait' = [wait EXCEPT !.pc = "returned",
                            !.ret = <<wait.resolveState, wait.err>>]
    /\ UNCHANGED <<subs, spc, httpErrorCount, firstTerminal, statePerCluster, status,
                   collector, crashed, ctxCancelled, env, hist>>
    /\ UNCHANGED <<computeVars, queueVars, recorderVars>>

\* case <-ctx.Done(): return resolveState, ctx.Err()
WaitReturnCancelled ==
    /\ Alive
    /\ wait.pc = "select"
    /\ ctxCancelled
    /\ wait' = [wait EXCEPT !.pc = "returned",
                            !.ret = <<wait.resolveState, "ctx">>]
    /\ UNCHANGED <<subs, spc, httpErrorCount, firstTerminal, statePerCluster, status,
                   collector, crashed, ctxCancelled, env, hist>>
    /\ UNCHANGED <<computeVars, queueVars, recorderVars>>

\* The caller cancels the context.
Cancel ==
    /\ Alive
    /\ ~ctxCancelled
    /\ wait.pc = "select"
    /\ ctxCancelled' = TRUE
    /\ UNCHANGED <<subs, spc, httpErrorCount, firstTerminal, statePerCluster, status,
                   collector, crashed, wait, env, hist>>
    /\ UNCHANGED <<computeVars, queueVars, recorderVars>>

\* From now on every server reports the stable resolution of the deployment.
Settle ==
    /\ Alive
    /\ ~env.settled
    /\ wait.gpc = "polling"
    /\ env' = [env EXCEPT !.settled = TRUE]
    /\ UNCHANGED <<subs, spc, httpErrorCount, firstTerminal, statePerCluster, status,
                   collector, crashed, wait, ctxCancelled, hist>>
    /\ UNCHANGED <<computeVars, queueVars, recorderVars>>

InitPollerWith(s, setup, cap) ==
    /\ subs = s
    /\ spc = [c \in Clusters |-> "none"]
    /\ httpErrorCount = [c \in Clusters |-> 0]
    /\ firstTerminal = [c \in Clusters |-> FALSE]
    /\ statePerCluster = <<>>
    /\ status = ResolveNotPolled
    /\ collector = "idle"
    /\ crashed = "no"
    /\ wait = [pc |-> "select", gpc |-> "setup", pending |-> Nil,
               resolveState |-> ResolveNotPolled, err |-> "nil", ret |-> Nil]
    /\ ctxCancelled = FALSE
    /\ env = [setup |-> setup, failCap |-> cap, settled |-> FALSE]
    /\ hist = [tick |-> FALSE,
               last |-> [c \in Clusters |->
                           [polled |-> FALSE, ok |-> TRUE, stat |-> 0, count |-> 0]],
               afterCancel |-> [c \in Clusters |-> 0],
               afterGiveUp |-> [c \in Clusters |-> 0],
               gaveUp |-> [c \in Clusters |-> FALSE],
               afterTerminal |-> FALSE]

IdlePoller == InitPollerWith({}, "ok", 0)

\* The clusters polled and what the setup requests gave; one cluster alone is
\* also run against a server that fails more than ten times in a row.
InitPoller ==
    \/ \E s \in SUBSET Clusters : InitPollerWith(s, "ok", PollerFailCap)
    \/ \E e \in {"serversErr", "gdmErr", "noDeps", "subsErr"} :
          \E s \in SUBSET Clusters : InitPollerWith(s, e, PollerFailCap)
    \/ InitPollerWith({1}, "ok", SoloFailCap)

NextPoller ==
    \/ WaitForeverSetup
    \/ \E c \in subs : SubStart(c)
    \/ \E c \in subs : SubFirstPoll(c)
    \/ \E c \in subs : SubTick(c)
    \/ \E c \in subs : SubReturn(c)
    \/ WaitForeverReturn
    \/ WaitGoroutineClose
    \/ WaitReturnDone
    \/ WaitReturnCancelled
    \/ Cancel
    \/ Settle

(***************************************************************************)
(* Deployment.Diff, Equal and Clone.  A Deployment is reduced to the       *)
(* fields Diff reads and two it does not (User, and the Cluster pointer,   *)
(* given as the identity of what it points to; 0 is nil).  Config stands   *)
(* for what DeployConfig.Diff compares; Schedule is the DeployConfig field *)
(* that Deployment.Diff looks at itself.  The list of differences is kept  *)
(* as a set: its order follows the iteration of a map.                     *)
(***************************************************************************)
ManifestKindService == "http-service"
ManifestKindScheduled == "scheduled"
DeployOwners == {{}, {"amy"}, {"bob"}}
Deploys ==
    [ClusterName : {"c1", "c2"}, Location : {"repo"}, Version : {"1.0.0", "1.1.0"},
     Flavor : {"", "canary"}, Kind : {ManifestKindService, ManifestKindScheduled},
     Owners : DeployOwners, Config : {"k1", "k2"}, Schedule : {"", "daily"},
     User : {"u1", "u2"}, Cluster : {0, 1}]
\* the deployment the others are compared with, in its kinds and owner sets
BaseDeploys ==
    {d \in Deploys : /\ d.ClusterName = "c1" /\ d.Version = "1.0.0" /\ d.Flavor = ""
                     /\ d.Config = "k1" /\ d.Schedule = "" /\ d.User = "u1"
                     /\ d.Cluster = 1}

\* Deployment.ID: the ManifestID (source location and flavor) and the cluster
DeploymentIDOf(d) == <<d.Location, d.Flavor, d.ClusterName>>
\* SourceID.Equal
SourceIDEqual(a, b) == a.Location = b.Location /\ a.Version = b.Version
\* DeployConfig.Diff: the differences of the fields it compares
DeployConfigDiff(a, b) == IF a.Config # b.Config THEN {"deploy config"} ELSE {}

\* Clone: a copy whose DeployConfig, Cluster and Owners are copies as well
FreshCluster == 2
Clone(d) ==
    [ClusterName |-> d.ClusterName, Location |-> d.Location, Version |-> d.Version,
     Flavor |-> d.Flavor, Kind |-> d.Kind, Owners |-> {o \in d.Owners : TRUE},
     Config |-> d.Config, Schedule |-> d.Schedule, User |-> d.User,
     Cluster |-> IF d.Cluster # 0 THEN FreshCluster ELSE 0]

\* The differences Diff collects, given what it does about schedule and cluster.
DiffWith(d, o, schedule, cluster) ==
    IF DeploymentIDOf(d) # DeploymentIDOf(o)
       THEN [panic |-> TRUE, diffs |-> {}]
       ELSE [panic |-> FALSE,
             diffs |->
                (IF d.ClusterName # o.ClusterName THEN {"cluster name"} ELSE {})
                \cup (IF ~SourceIDEqual(d, o) THEN {"source id"} ELSE {})
                \cup (IF d.Flavor # o.Flavor THEN {"flavor"} ELSE {})
                \cup (IF d.Kind # o.Kind THEN {"kind"} ELSE {})
                \cup (IF schedule /\ d.Schedule # o.Schedule THEN {"schedule"} ELSE {})
                \cup (IF cluster /\ d.Cluster # o.Cluster THEN {"cluster"} ELSE {})
                \cup (IF Cardinality(d.Owners) # Cardinality(o.Owners)
                         THEN {"number of owners"} ELSE {})
                \cup {"owner " \o owner : owner \in d.Owners \ o.Owners}
                \cup DeployConfigDiff(d, o)]

\* Diff that compares the schedules of deployments of any kind.
DiffAlwaysSchedule(d, o) == DiffWith(d, o, TRUE, FALSE)

\* Diff that compares the Cluster pointers too.
DiffClusterPointer(d, o) == DiffWith(d, o, d.Kind = ManifestKindScheduled, TRUE)

\* Diff that does not compare the numbers of owners.
DiffNoOwnerCount(d, o) ==
    LET x == DiffWith(d, o, d.Kind = ManifestKindScheduled, FALSE)
    IN  [x EXCEPT !.diffs = @ \ {"number of owners"}]

\* Deployment.Diff: panics on different ids; the schedule counts only for a
\* scheduled job; Cluster and User are not looked at.
Diff(d, o) == DiffWith(d, o, d.Kind = ManifestKindScheduled, FALSE)

\* Deployment.Equal: diff, _ := d.Diff(o); return !diff
Equal(d, o) ==
    LET x == Diff(d, o)
    IN  [panic |-> x.panic, equal |-> ~(x.diffs # {})]

InitEqual ==
    eq \in [called : {FALSE}, a : BaseDeploys, b : Deploys, out : {Nil},
            back : {Nil}, self : {Nil}, clone : {Nil}]

IdleEqual ==
    eq = [called |-> FALSE, a |-> Nil, b |-> Nil, out |-> Nil, back |-> Nil,
          self |-> Nil, clone |-> Nil]

\* a.Equal(b), b.Equal(a), b.Equal(b) and b.Equal(b.Clone())
EqualCall ==
    /\ ~eq.called
    /\ eq' = [eq EXCEPT !.called = TRUE,
                        !.out = Equal(eq.a, eq.b),
                        !.back = Equal(eq.b, eq.a),
                        !.self = Equal(eq.b, eq.b),
                        !.clone = Equal(eq.b, Clone(eq.b))]
    /\ UNCHANGED <<cs, po, put, sf, dq, queueVars, pollerVars, recorderVars>>

(***************************************************************************)
(* PUTArtifactHandler.Exchange.  The request is its body (decodable or     *)
(* not) and the values of its query; the Inserter may fail.                *)
(***************************************************************************)
QueryRepos == {<<>>, <<"repo">>, <<"repo", "other">>}
QueryOffsets == {<<>>, <<"dir">>}
QueryVersions == {<<>>, <<"1.2.3">>, <<"banana">>, <<"1.2.3", "2.0.0">>}
PutRequests ==
    [bodyOK : BOOLEAN, repo : QueryRepos, offset : QueryOffsets,
     version : QueryVersions, insertFails : BOOLEAN]

\* QueryValues.Single(field) and Single(field, default): the one value given,
\* the default when none is given, an error otherwise.
Single(vals, hasDefault, default) ==
    IF Len(vals) = 1 THEN [err |-> FALSE, val |-> vals[1]]
    ELSE IF Len(vals) = 0 /\ hasDefault THEN [err |-> FALSE, val |-> default]
    ELSE [err |-> TRUE, val |-> ""]

\* semv.Parse: the version of a well-formed string, an error otherwise
ParsedVersions == [x \in {"1.2.3", "2.0.0"} |-> IF x = "1.2.3" THEN <<1, 2, 3>> ELSE <<2, 0, 0>>]
semvParse(vs) ==
    IF vs \in DOMAIN ParsedVersions THEN [err |-> FALSE, v |-> ParsedVersions[vs]]
    ELSE [err |-> TRUE, v |-> <<0, 0, 0>>]

\* var sid sous.SourceID
ZeroSourceID == [Repo |-> "", Dir |-> "", Version |-> <<0, 0, 0>>]

\* sourceIDFromValues that builds the SourceID whatever semv.Parse said.
sourceIDFromValuesUnparsed(qv) ==
    LET r == Single(qv.repo, FALSE, "")
        o == Single(qv.offset, TRUE, "")
        vs == Single(qv.version, TRUE, "")
    IN  IF r.err \/ o.err \/ vs.err THEN [err |-> TRUE, sid |-> ZeroSourceID]
        ELSE [err |-> FALSE,
              sid |-> [Repo |-> r.val, Dir |-> o.val, Version |-> semvParse(vs.val).v]]

\* sourceIDFromValues: firsterr.Returned runs the steps up to the first error;
\* sid is what the last step assigns.
sourceIDFromValues(qv) ==
    LET r == Single(qv.repo, FALSE, "")
        o == Single(qv.offset, TRUE, "")
        vs == Single(qv.version, TRUE, "")
        v == semvParse(vs.val)
    IN  IF r.err \/ o.err \/ vs.err \/ v.err THEN [err |-> TRUE, sid |-> ZeroSourceID]
        ELSE [err |-> FALSE, sid |-> [Repo |-> r.val, Dir |-> o.val, Version |-> v.v]]

\* `return sid, firsterr.Returned(...)`: the order in which the variable sid
\* is read and the call is made is not specified; read first, sid is zero.
ReturnedSourceIDs(x) == IF x.err THEN {ZeroSourceID} ELSE {x.sid, ZeroSourceID}

InitPut ==
    put \in [called : {FALSE}, req : PutRequests, status : {0}, inserted : {Nil}]

IdlePut ==
    put = [called |-> FALSE, req |-> Nil, status |-> 0, inserted |-> Nil]

\* Exchange: decode the body, derive the SourceID, Insert; inserted is the
\* SourceID Insert was called with.
PutExchange ==
    /\ ~put.called
    /\ IF ~put.req.bodyOK
          THEN put' = [put EXCEPT !.called = TRUE, !.status = 406]
          ELSE LET x == sourceIDFromValues(put.req)
               IN  IF x.err
                      THEN put' = [put EXCEPT !.called = TRUE, !.status = 406]
                      ELSE \E sid \in ReturnedSourceIDs(x) :
                              put' = [put EXCEPT
                                        !.called = TRUE,
                                        !.inserted = sid,
                                        !.status = IF put.req.insertFails
                                                      THEN 406 ELSE 200]
    /\ UNCHANGED <<cs, po, eq, sf, dq, queueVars, pollerVars, recorderVars>>

(***************************************************************************)
(* PollDeployQueue: up to pollAtempts retrievals of the queue item of one  *)
(* rectification.  Each retrieval fails or fills the R11nResponse with     *)
(* what the server answered: a queue position and, possibly, a resolution  *)
(* (its Desc, its Error if any, its DeployState if any).                   *)
(***************************************************************************)
MaxAttempts == 3
DeployStatusAny == 0
DeployStatusPending == 1
DeployStatusActive == 2
DeployStatusFailed == 3
CreateDiff == "created"
ModifyDiff == "updated"
\* the answers of the server: a position and, possibly, a resolution, whose
\* DeployState may be absent
R11nResponses ==
    [QueuePosition : {-1, 0, 1},
     Resolution : {Nil} \cup
        [Desc : Descs, Error : {"none", "permanent"},
         DeployState : {Nil} \cup [Status : DeployStatusAny..DeployStatusFailed]]]

checkFinished(resolution) == resolution.Desc \in {CreateDiff, ModifyDiff}

checkResolutionSuccess(resolution) == resolution.DeployState.Status = DeployStatusActive

\* The body of the loop that takes every finished resolution for a success.
pollStepAnyStatus(err, response) ==
    IF err THEN "failure"
    ELSE IF response.Resolution # Nil /\ response.Resolution.Error # NoError
         THEN "failure"
    ELSE IF /\ response.QueuePosition < 0
            /\ response.Resolution # Nil
            /\ response.Resolution.DeployState # Nil
            /\ checkFinished(response.Resolution)
         THEN "success"
    ELSE "again"

\* The body of the loop after Retrieve: what it returns, or "again" when it
\* sleeps and goes round.
pollStep(err, response) ==
    IF err THEN "failure"
    ELSE IF response.Resolution # Nil /\ response.Resolution.Error # NoError
         THEN "failure"
    ELSE IF /\ response.QueuePosition < 0
            /\ response.Resolution # Nil
            /\ response.Resolution.DeployState # Nil
            /\ checkFinished(response.Resolution)
         THEN IF checkResolutionSuccess(response.Resolution)
                 THEN "success" ELSE "failure"
    ELSE "again"

\* The loop condition that lets one more round in.
LoopGoesOnInclusive(i, pollAtempts) == i <= pollAtempts

\* i < pollAtempts
LoopGoesOn(i, pollAtempts) == i < pollAtempts

InitDeployQueue ==
    dq \in [pc : {"loop"}, pollAtempts : 0..MaxAttempts, i : {0}, requests : {0},
            err : {FALSE}, response : {Nil}, result : {"none"}, seen : {FALSE}]

IdleDeployQueue ==
    dq = [pc |-> "returned", pollAtempts |-> 0, i |-> 0, requests |-> 0,
          err |-> FALSE, response |-> Nil, result |-> "none", seen |-> FALSE]

\* what a response must show for PollDeployQueue to be allowed to succeed
FinishedActive(response) ==
    /\ response.QueuePosition < 0
    /\ response.Resolution # Nil
    /\ response.Resolution.Error = NoError
    /\ response.Resolution.DeployState # Nil
    /\ response.Resolution.Desc \in {"created", "updated"}
    /\ response.Resolution.DeployState.Status = DeployStatusActive

\* One round of the loop: Retrieve, then return or sleep.
PollRound(err, response) ==
    /\ dq.pc = "loop"
    /\ LoopGoesOn(dq.i, dq.pollAtempts)
    /\ LET step == pollStep(err, response)
       IN  dq' = [dq EXCEPT
                    !.requests = @ + 1,
                    !.err = err,
                    !.response = IF err THEN dq.response ELSE response,
                    !.seen = @ \/ (~err /\ FinishedActive(response)),
                    !.i = IF step = "again" THEN @ + 1 ELSE @,
                    !.pc = IF step = "again" THEN "loop" ELSE "returned",
                    !.result = IF step = "again" THEN "none" ELSE step]
    /\ UNCHANGED <<cs, po, eq, put, sf, queueVars, pollerVars, recorderVars>>

\* The loop is over: Failed to deploy after pollAtempts attempts.
PollExhausted ==
    /\ dq.pc = "loop"
    /\ ~LoopGoesOn(dq.i, dq.pollAtempts)
    /\ dq' = [dq EXCEPT !.pc = "returned", !.result = "failure"]
    /\ UNCHANGED <<cs, po, eq, put, sf, queueVars, pollerVars, recorderVars>>

NextDeployQueue ==
    \/ \E response \in R11nResponses : PollRound(FALSE, response)
    \/ PollRound(TRUE, Nil)
    \/ PollExhausted

(***************************************************************************)
(* RESOLVE RECORDER.  NewResolveRecorder starts two goroutines: the drain, *)
(* which appends what arrives on the Log channel to the status, and the    *)
(* runner, which calls f, closes Log and finalizes the status.  f itself   *)
(* is the caller's: it runs phases through performPhase, and a phase       *)
(* function sends DiffResolutions on Log and returns an error or nil.      *)
(***************************************************************************)
\* make(chan DiffResolution, 10)
LogChanCap == 10
\* The phases f goes through, in order.
PhaseNames == <<"starting", "applying">>
\* What a phase function sends: a resolution without an error, and two with
\* different errors.
RezValues ==
    {Rez("created", NoError), Rez("updated", "permanent"), Rez("deleted", "transient")}
\* One more resolution than the Log channel buffers.
FloodEmit == LogChanCap + 1
\* The deployments handed to NewResolveRecorder.
InitialIntended == <<DMatch>>
NoErr == "nil"
\* the caller of Wait is still blocked
NotReturned == "blocked"

\* NewResolveRecorder has returned: both goroutines are started; f will send
\* up to budget resolutions, taken from rezs.
RecorderStarted(budget, rezs) ==
    /\ rr = [status |-> [Finished |-> FALSE, Phase |-> "", Log |-> <<>>,
                         Causes |-> <<>>],
             intended |-> InitialIntended,
             Log |-> <<>>, logClosed |-> FALSE, finished |-> FALSE, err |-> NoErr]
    /\ run = [rpc |-> "f", next |-> 1, dpc |-> "drain", sent |-> <<>>,
              errs |-> <<>>, failedAt |-> "", wret |-> NotReturned,
              budget |-> budget, rezs |-> rezs, wasFull |-> FALSE]
    /\ snap = Nil

InitRecorder == RecorderStarted(MaxEmit, RezValues)

\* a runner that sends more than the channel buffers
InitRecorderFlood == RecorderStarted(FloodEmit, {Rez("created", NoError)})

IdleRecorder == InitRecorder

\* earlyExit that never reports the recorded error.
earlyExitNever == FALSE

\* rr.earlyExit()
earlyExit == rr.err # NoErr

\* performPhase that sets the phase and runs the function whatever happened.
PerformPhaseBeginNoGuard ==
    /\ run.rpc = "f"
    /\ run.next <= Len(PhaseNames)
    /\ rr' = [rr EXCEPT !.status.Phase = PhaseNames[run.next]]
    /\ run' = [run EXCEPT !.rpc = "phase"]
    /\ UNCHANGED snap
    /\ UNCHANGED <<computeVars, queueVars, pollerVars>>

\* performPhase up to the call of the phase function: nothing once an error
\* is recorded, else setPhase(name).
PerformPhaseBegin ==
    /\ run.rpc = "f"
    /\ run.next <= Len(PhaseNames)
    /\ IF earlyExit
          THEN /\ run' = [run EXCEPT !.next = @ + 1]
               /\ UNCHANGED rr
          ELSE /\ rr' = [rr EXCEPT !.status.Phase = PhaseNames[run.next]]
               /\ run' = [run EXCEPT !.rpc = "phase"]
    /\ UNCHANGED snap
    /\ UNCHANGED <<computeVars, queueVars, pollerVars>>

\* rr.Log <- rez inside a phase function; the send blocks on a full buffer.
Emit(rez) ==
    /\ run.rpc = "phase"
    /\ rez \in run.rezs
    /\ Len(run.sent) < run.budget
    /\ Len(rr.Log) < LogChanCap
    /\ rr' = [rr EXCEPT !.Log = Append(@, rez)]
    /\ run' = [run EXCEPT !.sent = Append(@, rez),
                          !.wasFull = @ \/ Len(rr.Log) + 1 = LogChanCap]
    /\ UNCHANGED snap
    /\ UNCHANGED <<computeVars, queueVars, pollerVars>>

\* The phase function returns e: if err := f(); err != nil { rr.doneWithError(err) }
PhaseEnd(e) ==
    /\ run.rpc = "phase"
    /\ IF e # NoErr
          THEN /\ rr' = [rr EXCEPT !.err = e]
               /\ run' = [run EXCEPT !.rpc = "f", !.next = @ + 1,
                                     !.errs = Append(@, e),
                                     !.failedAt = IF run.errs = <<>>
                                                     THEN PhaseNames[run.next] ELSE @]
          ELSE /\ run' = [run EXCEPT !.rpc = "f", !.next = @ + 1]
               /\ UNCHANGED rr
    /\ UNCHANGED snap
    /\ UNCHANGED <<computeVars, queueVars, pollerVars>>

\* f(rr) returns
RunnerReturn ==
    /\ run.rpc = "f"
    /\ run' = [run EXCEPT !.rpc = "close"]
    /\ UNCHANGED <<rr, snap>>
    /\ UNCHANGED <<computeVars, queueVars, pollerVars>>

\* close(rr.Log)
RunnerCloseLog ==
    /\ run.rpc = "close"
    /\ rr' = [rr EXCEPT !.logClosed = TRUE]
    /\ run' = [run EXCEPT !.rpc = "finalize"]
    /\ UNCHANGED snap
    /\ UNCHANGED <<computeVars, queueVars, pollerVars>>

\* rr.write: Finished = time.Now(); if rr.err == nil { Phase = "finished" }
RunnerFinalize ==
    /\ run.rpc = "finalize"
    /\ rr' = [rr EXCEPT !.status.Finished = TRUE,
                        !.status.Phase = IF rr.err = NoErr THEN "finished" ELSE @]
    /\ run' = [run EXCEPT !.rpc = "end"]
    /\ UNCHANGED snap
    /\ UNCHANGED <<computeVars, queueVars, pollerVars>>

\* One turn of for rez := range rr.Log, with the head put first in the log.
DrainOnePrepend ==
    /\ run.dpc = "drain"
    /\ Len(rr.Log) > 0
    /\ LET rez == Head(rr.Log)
       IN  rr' = [rr EXCEPT !.Log = Tail(@),
                            !.status.Log = <<rez>> \o @,
                            !.status.Causes =
                                IF rez.Error # NoError THEN Append(@, rez.Error) ELSE @]
    /\ UNCHANGED <<run, snap>>
    /\ UNCHANGED <<computeVars, queueVars, pollerVars>>

\* The drain that forgets the cause of a resolution's error.
DrainOneNoCause ==
    /\ run.dpc = "drain"
    /\ Len(rr.Log) > 0
    /\ rr' = [rr EXCEPT !.Log = Tail(@), !.status.Log = Append(@, Head(rr.Log))]
    /\ UNCHANGED <<run, snap>>
    /\ UNCHANGED <<computeVars, queueVars, pollerVars>>

\* The drain that starts to read only when the channel is closed.
DrainOneAfterClose ==
    /\ run.dpc = "drain"
    /\ Len(rr.Log) > 0
    /\ rr.logClosed
    /\ LET rez == Head(rr.Log)
       IN  rr' = [rr EXCEPT !.Log = Tail(@),
                            !.status.Log = Append(@, rez),
                            !.status.Causes =
                                IF rez.Error # NoError THEN Append(@, rez.Error) ELSE @]
    /\ UNCHANGED <<run, snap>>
    /\ UNCHANGED <<computeVars, queueVars, pollerVars>>

\* One turn of for rez := range rr.Log: append to the log, and to the causes
\* when the resolution carries an error.
DrainOne ==
    /\ run.dpc = "drain"
    /\ Len(rr.Log) > 0
    /\ LET rez == Head(rr.Log)
       IN  rr' = [rr EXCEPT !.Log = Tail(@),
                            !.status.Log = Append(@, rez),
                            !.status.Causes =
                                IF rez.Error # NoError THEN Append(@, rez.Error) ELSE @]
    /\ UNCHANGED <<run, snap>>
    /\ UNCHANGED <<computeVars, queueVars, pollerVars>>

\* The drain closing finished as soon as it finds the channel empty.
DrainCloseEarly ==
    /\ run.dpc = "drain"
    /\ Len(rr.Log) = 0
    /\ rr' = [rr EXCEPT !.finished = TRUE]
    /\ run' = [run EXCEPT !.dpc = "end"]
    /\ UNCHANGED snap
    /\ UNCHANGED <<computeVars, queueVars, pollerVars>>

\* The range ends on the closed and emptied channel: close(rr.finished)
DrainClose ==
    /\ run.dpc = "drain"
    /\ Len(rr.Log) = 0
    /\ rr.logClosed
    /\ rr' = [rr EXCEPT !.finished = TRUE]
    /\ run' = [run EXCEPT !.dpc = "end"]
    /\ UNCHANGED snap
    /\ UNCHANGED <<computeVars, queueVars, pollerVars>>

\* rr.Done()
Done == rr.finished

\* CurrentStatus: rs = *rr.status copies the fields, so that rs.Intended is
\* the recorder's slice (same backing array, same *Deployment); Log and
\* Errs.Causes are copied into fresh slices.
CurrentStatus ==
    /\ snap' = [Finished |-> rr.status.Finished, Phase |-> rr.status.Phase,
                Log |-> rr.status.Log, Causes |-> rr.status.Causes,
                written |-> FALSE]
    /\ snap' # snap
    /\ UNCHANGED <<rr, run>>
    /\ UNCHANGED <<computeVars, queueVars, pollerVars>>

\* The caller writes into the snapshot it holds: an element of its Log or of
\* its Errs.Causes, or a deployment of its Intended list, which is the
\* recorder's own.
SnapshotWrite(part) ==
    /\ snap # Nil
    /\ ~snap.written
    /\ CASE part = "Log" ->
              /\ Len(snap.Log) > 0
              /\ snap' = [snap EXCEPT !.Log[1] = Rez("deleted", NoError),
                                      !.written = TRUE]
              /\ UNCHANGED rr
         [] part = "Causes" ->
              /\ Len(snap.Causes) > 0
              /\ snap' = [snap EXCEPT !.Causes[1] = "transient", !.written = TRUE]
              /\ UNCHANGED rr
         [] part = "Intended" ->
              /\ rr.intended[1] # DOtherTag
              /\ snap' = [snap EXCEPT !.written = TRUE]
              /\ rr' = [rr EXCEPT !.intended[1] = DOtherTag]
    /\ UNCHANGED run
    /\ UNCHANGED <<computeVars, queueVars, pollerVars>>

\* Wait with the accumulated errors looked at before the runner's error.
RecorderWaitStatusFirst ==
    /\ rr.finished
    /\ run.wret = NotReturned
    /\ run' = [run EXCEPT !.wret =
                  IF Len(rr.status.Causes) > 0 THEN "ResolveErrors" ELSE rr.err]
    /\ UNCHANGED <<rr, snap>>
    /\ UNCHANGED <<computeVars, queueVars, pollerVars>>

\* ResolveRecorder.Wait: <-rr.finished; err = rr.err; if nil, rr.status.Err()
RecorderWait ==
    /\ rr.finished
    /\ run.wret = NotReturned
    /\ run' = [run EXCEPT !.wret =
                  IF rr.err # NoErr THEN rr.err
                  ELSE IF Len(rr.status.Causes) > 0 THEN "ResolveErrors"
                  ELSE NoErr]
    /\ UNCHANGED <<rr, snap>>
    /\ UNCHANGED <<computeVars, queueVars, pollerVars>>

NextRecorder ==
    \/ PerformPhaseBegin
    \/ \E rez \in RezValues : Emit(rez)
    \/ \E e \in {NoErr, "phase failed"} : PhaseEnd(e)
    \/ RunnerReturn
    \/ RunnerCloseLog
    \/ RunnerFinalize
    \/ DrainOne
    \/ DrainClose
    \/ CurrentStatus
    \/ \E part \in {"Log", "Causes", "Intended"} : SnapshotWrite(part)
    \/ RecorderWait

\* The recorder with nobody taking snapshots.
NextRecorderFlood ==
    \/ PerformPhaseBegin
    \/ \E rez \in RezValues : Emit(rez)
    \/ \E e \in {NoErr, "phase failed"} : PhaseEnd(e)
    \/ RunnerReturn
    \/ RunnerCloseLog
    \/ RunnerFinalize
    \/ DrainOne
    \/ DrainClose
    \/ RecorderWait

(***************************************************************************)
(* The specifications.                                                     *)
(***************************************************************************)
InitSpecQueue == InitQueue /\ IdleCompute /\ IdlePollOnce /\ IdleEqual /\ IdlePut
    /\ IdleFeatures /\ IdleDeployQueue /\ IdlePoller /\ IdleRecorder
SpecQueue == InitSpecQueue /\ [][NextQueue]_vars

InitSpecCompute == InitQueue /\ InitCompute /\ IdlePollOnce /\ IdleEqual /\ IdlePut
    /\ IdleFeatures /\ IdleDeployQueue /\ IdlePoller /\ IdleRecorder
SpecCompute == InitSpecCompute /\ [][NextCompute]_vars

InitSpecPollOnce == InitQueue /\ IdleCompute /\ InitPollOnce /\ IdleEqual /\ IdlePut
    /\ IdleFeatures /\ IdleDeployQueue /\ IdlePoller /\ IdleRecorder
SpecPollOnce == InitSpecPollOnce /\ [][NextPollOnce]_vars

InitSpecPoller == InitQueue /\ IdleCompute /\ IdlePollOnce /\ IdleEqual /\ IdlePut
    /\ IdleFeatures /\ IdleDeployQueue /\ InitPoller /\ IdleRecorder
SpecPoller == InitSpecPoller /\ [][NextPoller]_vars

\* Every goroutine that can take a step eventually takes one: the ticker
\* fires every half second and the Go scheduler starves no goroutine.  The
\* caller's cancellation and the servers' settling are not forced.
PollerFairness ==
    /\ \A c \in Clusters :
          /\ WF_vars(SubStart(c))
          /\ WF_vars(SubFirstPoll(c))
          /\ WF_vars(SubTick(c))
          /\ WF_vars(SubReturn(c))
    /\ WF_vars(WaitForeverSetup)
    /\ WF_vars(WaitForeverReturn)
    /\ WF_vars(WaitGoroutineClose)
    /\ WF_vars(WaitReturnDone)
    /\ WF_vars(WaitReturnCancelled)

FairSpecPoller == SpecPoller /\ PollerFairness

InitSpecEqual ==
    InitQueue /\ IdleCompute /\ IdlePollOnce /\ InitEqual /\ IdlePut
    /\ IdleFeatures /\ IdleDeployQueue /\ IdlePoller /\ IdleRecorder
SpecEqual == InitSpecEqual /\ [][EqualCall]_vars

InitSpecPut ==
    InitQueue /\ IdleCompute /\ IdlePollOnce /\ IdleEqual /\ InitPut
    /\ IdleFeatures /\ IdleDeployQueue /\ IdlePoller /\ IdleRecorder
SpecPut == InitSpecPut /\ [][PutExchange]_vars

InitSpecFeatures ==
    InitQueue /\ IdleCompute /\ IdlePollOnce /\ IdleEqual /\ IdlePut /\ InitFeatures
    /\ IdleDeployQueue /\ IdlePoller /\ IdleRecorder
SpecFeatures == InitSpecFeatures /\ [][StateFeaturesCall]_vars

InitSpecDeployQueue ==
    InitQueue /\ IdleCompute /\ IdlePollOnce /\ IdleEqual /\ IdlePut /\ IdleFeatures
    /\ InitDeployQueue /\ IdlePoller /\ IdleRecorder
SpecDeployQueue == InitSpecDeployQueue /\ [][NextDeployQueue]_vars

\* PollDeployQueue is sequential code: its next step is taken.
FairSpecDeployQueue == SpecDeployQueue /\ WF_vars(NextDeployQueue)

InitSpecRecorder == InitQueue /\ IdleCompute /\ IdlePollOnce /\ IdleEqual /\ IdlePut
    /\ IdleFeatures /\ IdleDeployQueue /\ IdlePoller /\ InitRecorder
SpecRecorder == InitSpecRecorder /\ [][NextRecorder]_vars

(***************************************************************************)
(* PROPERTIES OF THE QUEUE SET (SpecQueue).                                *)
(***************************************************************************)
\* A rectification is being executed from its Begin until its result is recorded.
Executing(i) == didOf[i] # 0 /\ r11n[i] = "begun"

\* The handler has been called on the item and the worker has not yet removed it.
InHandler(i) ==
    /\ didOf[i] # 0
    /\ wpc[didOf[i]] \in {"handler", "wait", "publish"}
    /\ queues[didOf[i]] # <<>>
    /\ Head(queues[didOf[i]]) = i

\* C1: for every DeploymentID at most one rectification of that DeploymentID
\* is being executed at any moment, under any interleaving of Push calls and
\* worker steps (rectifications of different DeploymentIDs may run together).
C1_AtMostOnePerDeploymentID ==
    \A d \in DIDs :
        /\ Cardinality({i \in R11nIDs : didOf[i] = d /\ Executing(i)}) <= 1
        /\ Cardinality({i \in R11nIDs : didOf[i] = d /\ InHandler(i)}) <= 1

\* Two DeploymentIDs are rectified at the same moment while a second item of
\* one of them waits in its queue.
C1_Witness ==
    \E i, j \in R11nIDs :
        /\ Executing(i) /\ Executing(j)
        /\ didOf[i] # didOf[j]
        /\ Len(queues[didOf[i]]) = 2

\* C2: of two rectifications pushed in that order for the same DeploymentID
\* (ids are handed out in push order), the handler finishes the first, with
\* its DiffResolution produced, before it begins the second; the order of
\* completion per DeploymentID is the order of the pushes.
C2_PushOrderIsCompletionOrder ==
    /\ \A a, b \in R11nIDs :
          (a < b /\ didOf[a] # 0 /\ didOf[a] = didOf[b]
                 /\ (r11n[b] # "new" \/ InHandler(b)))
             => (r11n[a] = "done" /\ ~InHandler(a))
    /\ \A m, n \in DOMAIN finished :
          (m < n /\ didOf[finished[m]] = didOf[finished[n]])
             => finished[m] < finished[n]

\* Two rectifications of one DeploymentID have both completed, while a
\* rectification of another DeploymentID completed between them.
C2_Witness ==
    /\ Len(finished) >= 3
    /\ didOf[finished[1]] = didOf[finished[3]]
    /\ didOf[finished[1]] # didOf[finished[2]]

(***************************************************************************)
(* PROPERTIES OF computeState (SpecCompute).                               *)
(***************************************************************************)
\* C3: computeState returns the result of the first matching rule, in this
\* order: no server intent -> NotStarted; intent rejected by the id filter ->
\* NotVersion; no DiffResolution -> PendingRequest; a transient error ->
\* ErredRez; another error -> Failed; Desc unchanged -> Complete; Desc coming
\* -> TasksStarting; otherwise InProgress.  An error on the resolution takes
\* precedence over its description.
C3_FirstMatchingRule ==
    cs.called =>
        IF cs.srvIntent = Nil THEN cs.state = ResolveNotStarted
        ELSE IF ~(cs.srvIntent.repo = FilterRepo /\ cs.srvIntent.tag = FilterTag)
             THEN cs.state = ResolveNotVersion
        ELSE IF cs.current = Nil THEN cs.state = ResolvePendingRequest
        ELSE /\ cs.current.Error = "transient" => cs.state = ResolveErredRez
             /\ cs.current.Error = "permanent" => cs.state = ResolveFailed
             /\ cs.current.Error = NoError =>
                   /\ cs.current.Desc = "unchanged" => cs.state = ResolveComplete
                   /\ cs.current.Desc = "coming" => cs.state = ResolveTasksStarting
                   /\ cs.current.Desc \in {"created", "updated", "deleted"}
                         => cs.state = ResolveInProgress

\* An unchanged resolution that carries a transient error is reported as erred.
C3_Witness ==
    /\ cs.called
    /\ cs.srvIntent = DMatch
    /\ cs.current # Nil
    /\ cs.current.Desc = "unchanged"
    /\ cs.current.Error = "transient"
    /\ cs.state = ResolveErredRez

(***************************************************************************)
(* PROPERTIES OF THE STATUS POLLER (SpecPoller, FairSpecPoller).           *)
(***************************************************************************)
MaxStat(m) ==
    CHOOSE s \in {m[c].LastResult.stat : c \in DOMAIN m} :
        \A c \in DOMAIN m : m[c].LastResult.stat <= s

\* C4: the aggregate state computed by updateStatus is the maximum of the
\* clusters' last reported states, except that while any cluster is still in
\* its first cycle (LastCycle false) with a state below ResolveTERMINALS the
\* aggregate is ResolveInProgress.
C4_AggregateIsMaximum ==
    DOMAIN statePerCluster # {} =>
        status = IF \E c \in DOMAIN statePerCluster :
                       /\ ~statePerCluster[c].LastCycle
                       /\ statePerCluster[c].LastResult.stat < ResolveTERMINALS
                    THEN ResolveInProgress
                    ELSE MaxStat(statePerCluster)

\* C5: once every polled cluster's server reports the stable (unchanged)
\* resolution for good, Wait, its context not cancelled, eventually returns,
\* and what it returns is ResolveComplete without error.
C5_WaitReturnsComplete ==
    env.settled ~>
        (ctxCancelled \/ (wait.pc = "returned" /\ wait.ret = <<ResolveComplete, "nil">>))

\* C6: when the context is cancelled before polling has finished, Wait
\* returns the context's error together with the last aggregate state the
\* poller computed (sp.status after the latest update), not a default value.
C6_CancelReturnsLastAggregate ==
    [][(/\ wait.pc = "select" /\ wait'.pc = "returned"
        /\ wait'.ret[2] = "ctx"
        /\ DOMAIN statePerCluster # {})
          => wait'.ret[1] = status]_vars

\* C7: after the context is cancelled every sub-poller stops: none issues a
\* GET /status after its next tick boundary (at most the one poll that was
\* due when the context was cancelled).
C7_SubPollersStopOnCancel ==
    \A c \in Clusters : hist.afterCancel[c] <= 1

\* C8: a sub-poller reports ResolveErredHTTP and keeps polling for each of up
\* to 10 failed requests in a row; on more than 10 it reports ResolveFailed
\* and terminates: it issues no further poll and reports no other state; a
\* successful request resets the count of failures to zero.
C8_GivesUpAfterTenFailures ==
    \A c \in Clusters :
        /\ (hist.last[c].polled /\ ~hist.last[c].ok /\ hist.last[c].count <= 10)
              => (hist.last[c].stat = ResolveErredHTTP /\ spc[c] # "stopped")
        /\ (hist.last[c].polled /\ ~hist.last[c].ok /\ hist.last[c].count > 10)
              => hist.last[c].stat = ResolveFailed
        /\ (hist.last[c].polled /\ hist.last[c].ok) => hist.last[c].count = 0
        /\ hist.gaveUp[c] => hist.afterGiveUp[c] = 0

\* C9: an update whose resolveID differs from the cluster's recorded,
\* non-empty resolveID is a normal transition of nextSubStatus: LastCycle
\* becomes true, the update is stored as LastResult and polling continues.
C9_ResolveIDChangeIsNormalTransition ==
    /\ crashed # "LAST_CYCLE_W00t"
    /\ \A c \in DOMAIN statePerCluster : \A id \in 1..MaxResolveID :
          statePerCluster[c].LastResult.resolveID \notin {0, id} =>
              LET update == PollResult(ResolveInProgress, id)
                  n == nextSubStatus(statePerCluster, c, update)
              IN  /\ ~n.panic
                  /\ n.map[c].LastCycle
                  /\ n.map[c].LastResult = update

\* C11: a sub-poller stops polling as soon as any of its polls, the first or
\* a later one, yields a terminal state (>= ResolveNotIntended): once that
\* result is sent it issues no further GET /status and sends nothing more.
C11_StopsAfterTerminalPoll ==
    ~hist.afterTerminal

(***************************************************************************)
(* PROPERTIES OF pollOnce (SpecPollOnce).                                  *)
(***************************************************************************)
FallBackStates == {ResolveNotStarted, ResolveNotVersion, ResolvePendingRequest}

\* C12: on a successful GET /status pollOnce reports computeState of the
\* in-progress snapshot, unless that is NotStarted, NotVersion or
\* PendingRequest: then it reports computeState of the completed snapshot.
C12_PollOnceFallsBackToCompleted ==
    (po.called /\ po.ok) =>
        LET inProgress == snapshotState(compatIntended(po.data, po.data.InProgress))
            completed == snapshotState(compatIntended(po.data, po.data.Completed))
        IN  /\ ~po.out.panic
            /\ po.out.stat = IF inProgress \in FallBackStates THEN completed
                                                              ELSE inProgress

\* The response of a new-format server: the snapshot lists the Deployments
\* as its Intended.
NewFormat(data, field) == [data EXCEPT ![field].Intended = data.Deployments]

\* C13: for a response whose Completed or InProgress snapshot has an empty
\* Intended list, pollOnce gives the same outcome as for the otherwise
\* identical response whose snapshot has Intended = Deployments.
C13_OldAndNewFormatAgree ==
    po.called =>
        \A field \in {"Completed", "InProgress"} :
            (po.data[field] # Nil /\ Len(po.data[field].Intended) = 0) =>
                pollOnce(po.ok, NewFormat(po.data, field), po.count) = po.out

\* An old-format response whose state is only found through the copy.
C13_Witness ==
    /\ po.called /\ po.ok
    /\ po.data.InProgress # Nil
    /\ Len(po.data.InProgress.Intended) = 0
    /\ po.data.Deployments = <<DMatch>>
    /\ ~po.out.panic
    /\ po.out.stat = ResolveComplete

(***************************************************************************)
(* PROPERTIES OF waitForever's early returns (SpecPoller).                 *)
(***************************************************************************)
\* No deployment of /gdm matches the filter, or no cluster qualifies.
NoMatch == env.setup = "noDeps" \/ (env.setup = "ok" /\ subs = {})

\* C14: if no deployment returned by /gdm matches the filter, or poll is
\* given no sub-poller, no sub-poller is started, no GET /status is issued,
\* waitForever gives (ResolveNotIntended, nil) and that is what Wait returns
\* when it returns on waitForever's result.
C14_NoMatchReturnsNotIntended ==
    NoMatch =>
        /\ \A c \in Clusters : spc[c] = "none" /\ ~hist.last[c].polled
        /\ collector = "idle"
        /\ wait.gpc \in {"assigned", "closed"} =>
              <<wait.resolveState, wait.err>> = <<ResolveNotIntended, "nil">>
        /\ (wait.pc = "returned" /\ wait.ret[2] # "ctx") =>
              wait.ret = <<ResolveNotIntended, "nil">>

C14_Witness ==
    /\ env.setup = "noDeps"
    /\ subs # {}
    /\ wait.pc = "returned"
    /\ wait.ret = <<ResolveNotIntended, "nil">>

(***************************************************************************)
(* PROPERTIES OF THE RESOLVE RECORDER (SpecRecorder).                      *)
(***************************************************************************)
IsPrefix(a, b) == Len(a) <= Len(b) /\ \A i \in 1..Len(a) : a[i] = b[i]

\* C15: whenever ResolveRecorder.Wait has returned or Done() is true, the
\* runner function has returned and every DiffResolution it sent on the Log
\* channel is in the status log.
C15_DoneMeansRunnerReturnedAndLogged ==
    (Done \/ run.wret # NotReturned) =>
        /\ run.rpc \notin {"f", "phase"}
        /\ rr.status.Log = run.sent

C15_Witness ==
    /\ run.wret # NotReturned
    /\ Len(run.sent) >= 2
    /\ rr.status.Log = run.sent

SentWithError == \E i \in 1..Len(run.sent) : run.sent[i].Error # NoError

\* C16: Wait returns the error the runner recorded, the first one, if there
\* is one; otherwise the accumulated resolve errors if a logged
\* DiffResolution carried an Error; nil only if there is neither.
C16_WaitReturnsRecordedError ==
    run.wret # NotReturned =>
        run.wret = IF run.errs # <<>> THEN run.errs[1]
                   ELSE IF SentWithError THEN "ResolveErrors"
                   ELSE NoErr

\* Wait returned the runner's error although a resolution carried one too.
C16_Witness ==
    /\ run.wret = "phase failed"
    /\ SentWithError
    /\ Len(rr.status.Causes) > 0

\* C17: when the run has ended, the phase is "finished" if the runner
\* recorded no error and "failed" if it recorded one.
C17_FinalPhase ==
    run.rpc = "end" =>
        rr.status.Phase = IF run.errs = <<>> THEN "finished" ELSE "failed"

\* C17 as the code has it: when the runner goroutine has finalized the
\* status, the phase is "finished" if no error was recorded; from the moment
\* a phase function returns an error the phase stays the name of that phase,
\* whatever performPhase is called later, and it is never "failed".
C17_PhaseStaysAtFailedPhase ==
    /\ (run.rpc = "end" /\ run.errs = <<>>) => rr.status.Phase = "finished"
    /\ run.errs # <<>> =>
          /\ rr.status.Phase = run.failedAt
          /\ Len(run.errs) = 1

\* The first phase failed, the second was asked for and the run has ended.
C17_Witness ==
    /\ run.rpc = "end"
    /\ run.errs # <<>>
    /\ run.next > Len(PhaseNames)
    /\ rr.status.Phase = "starting"

\* C18: the status log is append-only and keeps the order of the sends: it
\* is a prefix of what the runner sent, and the log of a snapshot is a prefix
\* of the log any later snapshot shows.
C18_LogAppendOnlyInOrder ==
    /\ IsPrefix(rr.status.Log, run.sent)
    /\ (snap # Nil /\ ~snap.written) => IsPrefix(snap.Log, rr.status.Log)

\* A snapshot taken between two appends of different resolutions.
C18_Witness ==
    /\ snap # Nil /\ ~snap.written
    /\ Len(snap.Log) = 1
    /\ Len(rr.status.Log) = 2
    /\ rr.status.Log[1] # rr.status.Log[2]

\* C19: Finished is the zero time exactly while the run is live: Done() is
\* true if and only if the status has Finished set; after Wait returned the
\* status is final.
C19_FinishedIffDone ==
    /\ Done <=> rr.status.Finished
    /\ run.wret # NotReturned => (rr.status.Finished /\ run.rpc = "end")

\* C20: a snapshot is a deep copy: a write into a snapshot changes nothing
\* of the recorder, and a write of the recorder changes no snapshot held.
C20_SnapshotIsDeepCopy ==
    [][/\ (snap # Nil /\ snap' # Nil /\ ~snap.written /\ snap'.written) => rr' = rr
       /\ (rr' # rr /\ snap # Nil) => snap' = snap]_vars

(***************************************************************************)
(* MORE PROPERTIES OF THE QUEUE SET (SpecQueue).                           *)
(***************************************************************************)
\* C21: a Push to a full queue returns false and leaves the queue set as it
\* was (same queues, lengths, items and order); a Push succeeds only on a
\* queue that is not full; Push never blocks.
C21_PushToFullQueueChangesNothing ==
    [][/\ (lastPush' # lastPush /\ ~lastPush'.ok) =>
             /\ \E d \in DIDs : Len(queues[d]) >= QueueCap
             /\ UNCHANGED <<queues, nextID, didOf, r11n, wpc, finished>>
       /\ \A d \in DIDs : Len(queues'[d]) <= QueueCap
       /\ nextID < MaxPush => \A d \in DIDs : ENABLED Push(d)]_vars

\* A Push was refused on a full queue.
C21_Witness ==
    /\ ~lastPush.ok
    /\ \E d \in DIDs : Len(queues[d]) = QueueCap

\* No worker has taken an item yet.
NoHandlerRan ==
    /\ \A d \in DIDs : wpc[d] = "idle"
    /\ \A i \in R11nIDs : r11n[i] = "new"

Pushed(d) == {i \in R11nIDs : didOf[i] = d}

\* C22: after successful Pushes to a queue set whose handler has not run,
\* Queues() has exactly one queue per DeploymentID pushed to, the length of
\* each is the number of rectifications pushed for it, and a DeploymentID
\* never pushed to has no queue.
C22_QueuesCountPushes ==
    NoHandlerRan =>
        /\ DOMAIN Queues = {d \in DIDs : Pushed(d) # {}}
        /\ \A d \in DOMAIN Queues : Len(Queues[d]) = Cardinality(Pushed(d))
        /\ \A d \in DIDs : Pushed(d) = {} => queues[d] = <<>>

\* Two pushes for one DeploymentID and one for another, nothing handled yet.
C22_Witness ==
    /\ NoHandlerRan
    /\ nextID = 3
    /\ \E d, e \in DOMAIN Queues : Len(Queues[d]) = 2 /\ Len(Queues[e]) = 1

\* Ids are handed out in the order of the pushes.
QueueInPushOrder ==
    \A d \in DIDs : \A m, n \in DOMAIN queues[d] :
        /\ didOf[queues[d][m]] = d
        /\ m < n => queues[d][m] < queues[d][n]

\* C23: the snapshot of a queue lists its pending items in push order, each
\* with the id its Push returned, and the ids returned by distinct Pushes
\* are pairwise distinct.
C23_SnapshotInPushOrder ==
    [][/\ QueueInPushOrder'
       /\ (lastPush' # lastPush /\ lastPush'.ok) =>
             /\ didOf[lastPush'.id] = 0
             /\ \E d \in DIDs :
                   /\ didOf'[lastPush'.id] = d
                   /\ Queues'[d] = Append(queues[d], lastPush'.id)]_vars

\* A queue of two items with a push for the other DeploymentID between them.
C23_Witness ==
    \E d \in DOMAIN Queues :
        /\ Len(Queues[d]) = 2
        /\ Queues[d][2] > Queues[d][1] + 1
        /\ lastPush = [id |-> Queues[d][2], ok |-> TRUE]

\* C24: Exchange answers 404 and an empty queue when the DeploymentID has no
\* queue or could not be derived from the request, and 200 with the items of
\* the queue when the DeploymentID has one.
C24_ExchangeStatus ==
    [][(~lastGet.asked /\ lastGet'.asked) =>
          IF lastGet'.didErr \/ ~HasQueue(lastGet'.did)
             THEN lastGet'.status = 404 /\ lastGet'.queue = <<>>
             ELSE lastGet'.status = 200 /\ lastGet'.queue = queues[lastGet'.did]]_vars

\* 404 for a DeploymentID never pushed to, while another has two items queued.
C24_Witness ==
    /\ lastGet.asked
    /\ ~lastGet.didErr
    /\ lastGet.status = 404
    /\ ~HasQueue(lastGet.did)
    /\ \E d \in DIDs : Len(queues[d]) = 2

Occurrences(seq, x) == Cardinality({k \in DOMAIN seq : seq[k] = x})

\* C25: Begin is idempotent: a Begin on a rectification already begun changes
\* nothing, begun never reverts, the result is set exactly once and stays,
\* and the Wait of the handler returns on that recorded result.
C25_BeginIsIdempotent ==
    [][/\ \A i \in R11nIDs :
             /\ r11n[i] # "new" => r11n'[i] # "new"
             /\ r11n[i] = "done" => r11n'[i] = "done"
             /\ Occurrences(finished', i) = IF r11n'[i] = "done" THEN 1 ELSE 0
             /\ r11n'[i] # "new" => BeginOn(r11n', i) = r11n'
             /\ BeginOn(BeginOn(r11n', i), i) = BeginOn(r11n', i)
       /\ IsPrefix(finished, finished')
       /\ \A d \in DIDs :
             wpc'[d] = "publish" => r11n'[Head(queues'[d])] = "done"]_vars

\* The handler's Wait has returned the result of an item while the next item
\* of the same DeploymentID waits behind it.
C25_Witness ==
    \E d \in DIDs :
        /\ wpc[d] = "publish"
        /\ Len(queues[d]) = 2
        /\ r11n[queues[d][1]] = "done"
        /\ r11n[queues[d][2]] = "new"


(***************************************************************************)
(* PROPERTIES OF Deployment.Equal (SpecEqual)                              *)
(***************************************************************************)

\* C26: every deployment is Equal to itself and to its Clone: Diff of a
\* deployment with itself, and with its Clone, does not panic and reports no
\* difference.
C26_EqualIsReflexive ==
    eq.called =>
        /\ eq.self = [panic |-> FALSE, equal |-> TRUE]
        /\ eq.clone = [panic |-> FALSE, equal |-> TRUE]
        /\ Diff(eq.b, eq.b).diffs = {}
        /\ Diff(eq.b, Clone(eq.b)).diffs = {}

\* a scheduled job with an owner and a cluster was compared with its Clone,
\* which is another value that points to another Cluster
C26_Witness ==
    /\ eq.called
    /\ eq.b.Kind = ManifestKindScheduled
    /\ eq.b.Owners # {}
    /\ eq.b.Cluster # 0
    /\ Clone(eq.b) # eq.b
    /\ eq.clone.equal

\* what two deployments must agree on to be Equal
AgreeForEqual(a, b) ==
    /\ a.ClusterName = b.ClusterName
    /\ a.Location = b.Location /\ a.Version = b.Version
    /\ a.Flavor = b.Flavor
    /\ a.Kind = b.Kind
    /\ a.Owners = b.Owners
    /\ a.Config = b.Config
    /\ (a.Kind = ManifestKindScheduled /\ b.Kind = ManifestKindScheduled
           => a.Schedule = b.Schedule)

\* C27: two deployments of one id are Equal exactly when they agree on the
\* cluster name, the SourceID, the flavor, the kind, the set of owners and
\* the DeployConfig, and on the schedule when the kind is scheduled; so a
\* difference of schedule between jobs that are not scheduled, or of User,
\* leaves them Equal.
C27_EqualIffFieldsAgree ==
    eq.called /\ DeploymentIDOf(eq.a) = DeploymentIDOf(eq.b) =>
        /\ ~eq.out.panic
        /\ eq.out.equal <=> AgreeForEqual(eq.a, eq.b)

\* two services that differ in schedule, User and Cluster only were found Equal
C27_Witness ==
    /\ eq.called
    /\ eq.a.Kind = ManifestKindService
    /\ eq.a.Schedule # eq.b.Schedule
    /\ eq.a.User # eq.b.User
    /\ eq.a.Cluster # eq.b.Cluster
    /\ ~eq.out.panic
    /\ eq.out.equal

(***************************************************************************)
(* PROPERTIES OF PUTArtifactHandler.Exchange (SpecPut)                     *)
(***************************************************************************)

\* the request has no repo, or its version is not a semantic version, or its
\* body does not decode
InvalidPut(req) ==
    \/ ~req.bodyOK
    \/ Len(req.repo) = 0
    \/ Len(req.version) = 0
    \/ (Len(req.version) = 1 /\ req.version[1] \notin DOMAIN ParsedVersions)

\* C28: a PUT whose version is not a valid semantic version, whose repo is
\* missing, or whose body cannot be decoded is answered 406 and Insert is
\* not called.
C28_InvalidPutIsRejected ==
    put.called /\ InvalidPut(put.req) =>
        /\ put.status = 406
        /\ put.inserted = Nil

\* a decodable request with one repo and the version "banana" was answered 406
C28_Witness ==
    /\ put.called
    /\ put.req.bodyOK
    /\ put.req.repo = <<"repo">>
    /\ put.req.version = <<"banana">>
    /\ put.status = 406
    /\ put.inserted = Nil


(***************************************************************************)
(* MORE PROPERTIES OF pollOnce (SpecPollOnce)                              *)
(***************************************************************************)

\* C29: pollOnce returns a pollResult, and does not panic, on every outcome
\* of GET /status: a failed request, and a response whose InProgress or
\* Completed snapshot is absent.
C29_PollOnceAlwaysReturns ==
    po.called =>
        /\ po.out.panic = FALSE
        /\ po.out.stat \in ResolveNotPolled..ResolveMAX


InitSpecRecorderFlood == InitQueue /\ IdleCompute /\ IdlePollOnce /\ IdleEqual /\ IdlePut
    /\ IdleFeatures /\ IdleDeployQueue /\ IdlePoller /\ InitRecorderFlood
SpecRecorderFlood == InitSpecRecorderFlood /\ [][NextRecorderFlood]_vars

\* The two goroutines of the recorder and a caller blocked in Wait take
\* their steps; f, the caller's function, is not obliged to go on.
RecorderFairness ==
    /\ WF_vars(RunnerCloseLog)
    /\ WF_vars(RunnerFinalize)
    /\ WF_vars(DrainOne)
    /\ WF_vars(DrainClose)
    /\ WF_vars(RecorderWait)
FairSpecRecorderFlood == SpecRecorderFlood /\ RecorderFairness

(***************************************************************************)
(* PROPERTIES OF stateFeatures (SpecFeatures)                              *)
(***************************************************************************)
\* the places of the snapshot's Intended list that match the location filter
IntendedMatches(rstat) ==
    IF rstat = Nil THEN {}
    ELSE {i \in 1..Len(rstat.Intended) : LocationFilterDeployment(rstat.Intended[i])}

\* C32: serverIntent returns a deployment only when exactly one deployment of
\* the snapshot's Intended list matches the location filter, and then that
\* one; with no match, more than one match or no snapshot it returns none,
\* and computeState yields ResolveNotStarted.
C32_IntentOnlyOnSingleMatch ==
    sf.called =>
        LET m == IntendedMatches(sf.rstat)
        IN  /\ Cardinality(m) = 1 => \A i \in m : sf.srvIntent = sf.rstat.Intended[i]
            /\ Cardinality(m) # 1 => sf.srvIntent = Nil /\ sf.state = ResolveNotStarted

\* two of the intended deployments matched the filter: no intent, NotStarted
C32_Witness ==
    /\ sf.called
    /\ Cardinality(IntendedMatches(sf.rstat)) = 2
    /\ sf.rstat.Intended[1] # sf.rstat.Intended[2]
    /\ sf.srvIntent = Nil
    /\ sf.state = ResolveNotStarted

\* the places of the snapshot's log whose ManifestID matches the filter
LogMatches(rstat) ==
    IF rstat = Nil THEN {}
    ELSE {i \in 1..Len(rstat.Log) : LocationFilterManifestID(rstat.Log[i].ManifestID)}

\* C33: diffResolutionFor returns the first entry of the snapshot's log whose
\* ManifestID matches the location filter, none if there is no snapshot or
\* no matching entry; the entries after it do not influence the state
\* computed: the snapshot cut after that entry has the same state.
C33_FirstLogEntryDecides ==
    sf.called =>
        LET m == LogMatches(sf.rstat)
        IN  /\ m = {} => sf.current = Nil
            /\ m # {} =>
                 LET first == CHOOSE i \in m : \A j \in m : i <= j
                 IN  /\ sf.current = sf.rstat.Log[first]
                     /\ sf.state = computeState(sf.srvIntent, sf.rstat.Log[first])
                     /\ sf.state =
                          snapshotState([sf.rstat EXCEPT !.Log = SubSeq(@, 1, first)])

\* the log has two different entries for the watched manifest; the first one,
\* a failure, decided the state
C33_Witness ==
    /\ sf.called
    /\ Cardinality(LogMatches(sf.rstat)) = 2
    /\ sf.rstat.Log[1] # sf.rstat.Log[2]
    /\ sf.current = sf.rstat.Log[1]
    /\ sf.state = ResolveFailed

(***************************************************************************)
(* PROPERTIES OF PollDeployQueue (SpecDeployQueue)                         *)
(***************************************************************************)

\* C37: PollDeployQueue returns success only if a response had a negative
\* QueuePosition and a Resolution without Error, with a DeployState, whose
\* Desc is created or updated and whose DeployState.Status is
\* DeployStatusActive; after a failed retrieval, or a response whose
\* Resolution has an Error, it has returned failure, whatever the queue
\* position.
C37_SuccessOnlyWhenFinishedActive ==
    /\ dq.result = "success" => dq.seen /\ FinishedActive(dq.response)
    /\ (\/ dq.err
        \/ (/\ dq.response # Nil
            /\ dq.response.Resolution # Nil
            /\ dq.response.Resolution.Error # NoError))
          => dq.pc = "returned" /\ dq.result = "failure"

\* a second response, after one that showed the rectification still queued,
\* showed it created and active: success
C37_Witness ==
    /\ dq.result = "success"
    /\ dq.requests = 2
    /\ dq.response.QueuePosition < 0
    /\ dq.response.Resolution.Desc = "created"
    /\ dq.response.Resolution.DeployState.Status = DeployStatusActive

\* C38: PollDeployQueue issues no more than pollAtempts requests and returns:
\* failure when the attempts are used up without a finished resolution, and
\* failure without any request when pollAtempts is 0.
C38_AtMostPollAttemptsRequests ==
    /\ [](/\ dq.requests <= dq.pollAtempts
          /\ (dq.pc = "returned" /\ ~dq.seen) => dq.result = "failure"
          /\ (dq.pc = "returned" /\ dq.pollAtempts = 0)
                => dq.requests = 0 /\ dq.result = "failure")
    /\ <>(dq.pc = "returned")

\* every one of three attempts was answered with an unchanged or coming
\* resolution: failure after three requests
C38_Witness ==
    /\ dq.pc = "returned"
    /\ dq.pollAtempts = MaxAttempts
    /\ dq.requests = MaxAttempts
    /\ dq.i = MaxAttempts
    /\ dq.response.Resolution # Nil
    /\ dq.response.Resolution.Desc \in {"unchanged", "coming"}
    /\ dq.result = "failure"

(***************************************************************************)
(* MORE PROPERTIES OF Deployment.Equal (SpecEqual)                         *)
(***************************************************************************)

\* C39: for two deployments a and b with one DeploymentID, a.Equal(b) and
\* b.Equal(a) are the same, also when their owners or kinds differ; for two
\* deployments with different DeploymentIDs the comparison panics.
C39_EqualIsSymmetric ==
    eq.called =>
        IF DeploymentIDOf(eq.a) = DeploymentIDOf(eq.b)
           THEN /\ ~eq.out.panic /\ ~eq.back.panic
                /\ eq.out.equal = eq.back.equal
           ELSE eq.out.panic /\ eq.back.panic

\* a service with no owner and a scheduled job with one, of one id, were
\* compared both ways: not equal both ways
C39_Witness ==
    /\ eq.called
    /\ DeploymentIDOf(eq.a) = DeploymentIDOf(eq.b)
    /\ eq.a.Kind # eq.b.Kind
    /\ eq.a.Owners = {} /\ eq.b.Owners # {}
    /\ ~eq.out.equal /\ ~eq.back.equal


(***************************************************************************)
(* MORE PROPERTIES OF THE RESOLVE RECORDER                                 *)
(***************************************************************************)

\* C34: once a phase function has returned an error, no later performPhase
\* runs its function (no phase is entered, nothing more is sent) or changes
\* the phase; the recorded error is that first error and stays; the phase is
\* never "finished".
C34_NothingRunsAfterFirstError ==
    [][run.errs # <<>> =>
          /\ rr.err = run.errs[1] /\ rr'.err = rr.err
          /\ run'.errs = run.errs
          /\ run'.rpc # "phase"
          /\ run'.sent = run.sent
          /\ rr'.status.Phase = rr.status.Phase
          /\ rr'.status.Phase # "finished"]_vars

\* the first phase failed after sending, the second performPhase was called,
\* and the run was finalized
C34_Witness ==
    /\ run.failedAt = "starting"
    /\ run.sent # <<>>
    /\ run.next > Len(PhaseNames)
    /\ run.rpc = "end"
    /\ rr.status.Finished
    /\ rr.err = "phase failed"

\* C35: once the runner function has returned, Wait returns and Done()
\* becomes true; Done() stays true; and the runner is never blocked for ever
\* on a full Log channel, however many resolutions it sends.
C35_RecorderTerminates ==
    /\ (run.rpc \notin {"f", "phase"}) ~> (Done /\ run.wret # NotReturned)
    /\ [][Done => Done']_vars
    /\ (Len(rr.Log) = LogChanCap) ~> (Len(rr.Log) < LogChanCap)

\* the runner sent more than the channel buffers, found it full on the way,
\* returned, and Wait returned
C35_Witness ==
    /\ Len(run.sent) > LogChanCap
    /\ run.wasFull
    /\ Done
    /\ run.wret # NotReturned
    /\ Len(rr.status.Log) = Len(run.sent)

\* the errors of the entries of a log that carry one, in the log's order
RECURSIVE ErrorsOf(_)
ErrorsOf(log) ==
    IF log = <<>> THEN <<>>
    ELSE IF Head(log).Error # NoError THEN <<Head(log).Error>> \o ErrorsOf(Tail(log))
    ELSE ErrorsOf(Tail(log))

\* C36: in every state the causes of the status are the errors of its log
\* entries that carry one, one for each and in the same order; and so they
\* are in every snapshot CurrentStatus returned.
C36_CausesMatchLog ==
    /\ rr.status.Causes = ErrorsOf(rr.status.Log)
    /\ (snap # Nil /\ ~snap.written) => snap.Causes = ErrorsOf(snap.Log)

\* a snapshot of a log with two different errors
C36_Witness ==
    /\ snap # Nil /\ ~snap.written
    /\ Len(snap.Causes) = 2
    /\ snap.Causes[1] # snap.Causes[2]
    /\ snap.Log = rr.status.Log


====
